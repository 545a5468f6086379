--------------------------- MODULE SleepersProofs ---------------------------
(***************************************************************************)
(* Proofs about ConditionVariable, for any number of threads and any       *)
(* largest count: no waker touches the block of a thread that has left,    *)
(* no two have the same block, and no wake-up that was left to the owner   *)
(* of the list's lock is dropped but those RemoveNewest writes over.       *)
(*                                                                         *)
(* The invariant numbers the blocks on the list from old to new, and those *)
(* a waker has taken from the first to the last, so that the links are     *)
(* known to lead from each to its neighbour, the walks to end, and the     *)
(* blocks to be those between the ends of a chain.                         *)
(*                                                                         *)
(* The last part does the same for WaitOnAddress: no list, no waker's      *)
(* catch and no walk reaches the block of a thread that has returned.      *)
(*                                                                         *)
(* All of it holds until a release that a thread did not wait long enough  *)
(* for meets the next wait of that thread.                                 *)
(***************************************************************************)
EXTENDS MCSleepers, FiniteSetTheorems, WellFoundedInduction, TLAPS

Block == Thread \cup {Null}

-----------------------------------------------------------------------------
(* What lies on a way along links.                                         *)

Closed(link, S) == \A y \in S : link[y] # Null => link[y] \in S

LEMMA FollowFirst ==
  ASSUME NEW link, NEW b \in Thread
  PROVE  b \in Follow(link, b)
  BY NullIsNoThread DEF Follow

LEMMA FollowThreads ==
  ASSUME NEW link, NEW b
  PROVE  Follow(link, b) \in SUBSET Thread
  BY DEF Follow

LEMMA FollowClosed ==
  ASSUME NEW link \in [Thread -> Block], NEW b
  PROVE  Closed(link, Follow(link, b))
  <1> SUFFICES ASSUME NEW y \in Follow(link, b), link[y] # Null, link[y] \notin Follow(link, b)
               PROVE  FALSE
    BY DEF Closed
  <1>1. y \in Thread /\ link[y] \in Thread
    BY DEF Follow, Block
  <1>2. PICK S \in SUBSET (Thread \ {link[y]}) :
          (b # Null => b \in S) /\ \A x \in S : link[x] # Null => link[x] \in S
    BY <1>1 DEF Follow
  <1>3. y \notin S
    BY <1>1, <1>2
  <1>4. S \in SUBSET (Thread \ {y})
    BY <1>2, <1>3
  <1> QED BY <1>2, <1>4 DEF Follow

LEMMA FollowLeast ==
  ASSUME NEW link, NEW b, NEW S \in SUBSET Thread, b # Null => b \in S, Closed(link, S)
  PROVE  Follow(link, b) \subseteq S
  <1> SUFFICES ASSUME NEW x \in Follow(link, b), x \notin S
               PROVE  FALSE
    OBVIOUS
  <1>1. S \in SUBSET (Thread \ {x})
    OBVIOUS
  <1> QED BY <1>1 DEF Follow, Closed

LEMMA FollowNone ==
  ASSUME NEW link
  PROVE  Follow(link, Null) = {}
  <1> DEFINE None == {}
  <1>0. Closed(link, None) /\ None \in SUBSET Thread
    BY DEF Closed
  <1> HIDE DEF None
  <1>1. Follow(link, Null) \subseteq None
    BY <1>0, FollowLeast
  <1> USE DEF None
  <1> QED BY <1>1

\* The way from b goes on with the way from where b leads.
LEMMA FollowUnfold ==
  ASSUME NEW link \in [Thread -> Block], NEW b \in Thread
  PROVE  Follow(link, b) = {b} \cup Follow(link, link[b])
  <1> DEFINE S == {b} \cup Follow(link, link[b])
  <1>1. S \in SUBSET Thread
    BY FollowThreads
  <1>2. link[b] # Null => link[b] \in S
    BY FollowFirst DEF Block
  <1>3. Closed(link, S)
    BY <1>2, FollowClosed DEF Closed
  <1>4. Follow(link, b) \subseteq S
    BY <1>1, <1>3, FollowLeast
  <1>5. b \in Follow(link, b)
    BY FollowFirst
  <1>6. link[b] # Null => link[b] \in Follow(link, b)
    BY <1>5, FollowClosed DEF Closed
  <1>7. Follow(link, link[b]) \subseteq Follow(link, b)
    BY <1>6, FollowClosed, FollowThreads, FollowLeast
  <1> QED BY <1>4, <1>5, <1>7

\* Links of blocks that are not on the way do not matter.
LEMMA FollowSame ==
  ASSUME NEW link \in [Thread -> Block], NEW new \in [Thread -> Block], NEW b \in Block,
         \A y \in Follow(link, b) : new[y] = link[y]
  PROVE  Follow(new, b) = Follow(link, b)
  <1> DEFINE F == Follow(link, b)
             G == Follow(new, b)
  <1>1. F \in SUBSET Thread /\ G \in SUBSET Thread
    BY FollowThreads
  <1>2. b # Null => b \in F /\ b \in G
    BY FollowFirst DEF Block
  <1>3. Closed(link, F) /\ Closed(new, G)
    BY FollowClosed
  <1>4. Closed(new, F)
    BY <1>3 DEF Closed
  <1>5. G \subseteq F
    BY <1>1, <1>2, <1>4, FollowLeast
  <1>6. Closed(link, G)
    BY <1>3, <1>5 DEF Closed
  <1>7. F \subseteq G
    BY <1>1, <1>2, <1>6, FollowLeast
  <1> QED BY <1>5, <1>7

\* A way is joined to the end of another one.
LEMMA FollowJoin ==
  ASSUME NEW link \in [Thread -> Block], NEW new \in [Thread -> Block], NEW b \in Thread, NEW x \in Thread,
         NEW e \in Follow(link, b), link[e] = Null, new[e] = x,
         \A y \in Follow(link, b) : y # e => new[y] = link[y]
  PROVE  Follow(new, b) = Follow(link, b) \cup Follow(new, x)
  <1> DEFINE F == Follow(link, b)
             G == Follow(new, b)
             X == Follow(new, x)
             I == F \cap G
  <1>1. F \in SUBSET Thread /\ G \in SUBSET Thread /\ X \in SUBSET Thread
    BY FollowThreads
  <1>2. b \in F /\ b \in G /\ x \in X
    BY FollowFirst
  <1>3. Closed(link, F) /\ Closed(new, G) /\ Closed(new, X)
    BY FollowClosed
  <1>4. Closed(new, F \cup X)
    BY <1>2, <1>3 DEF Closed
  <1>5. G \subseteq F \cup X
    BY <1>1, <1>2, <1>4, FollowLeast
  <1>6. Closed(link, I)
    BY <1>3 DEF Closed
  <1>7. F \subseteq I
    BY <1>1, <1>2, <1>6, FollowLeast
  <1>8. x \in G
    BY <1>3, <1>7, NullIsNoThread DEF Closed
  <1>9. X \subseteq G
    BY <1>1, <1>3, <1>8, FollowLeast
  <1> QED BY <1>5, <1>7, <1>9

-----------------------------------------------------------------------------
(* Blocks in the order in which they were queued.                          *)

\* A set of numbers has a least one.
LEMMA LeastNumber ==
  ASSUME NEW S \in SUBSET Nat, S # {}
  PROVE  \E n \in S : \A k \in S : n <= k
  <1>1. PICK n \in S : \A k \in S : ~ (<<k, n>> \in OpToRel(<, Nat))
    BY NatLessThanWellFounded, WFMin
  <1>2. \A k \in S : ~ (k < n)
    BY <1>1 DEF OpToRel
  <1> QED BY <1>2

\* The links lead from the newest block b through all of S, in descending order.
Ordered(link, S, b, pos) ==
  /\ S \subseteq Thread
  /\ b = Null <=> S = {}
  /\ b # Null => b \in S /\ \A c \in S : pos[c] <= pos[b]
  /\ \A x \in S : link[x] # Null => link[x] \in S /\ pos[link[x]] < pos[x]
  /\ \A x, c \in S : pos[c] < pos[x] => link[x] # Null /\ pos[c] <= pos[link[x]]
  /\ \A x, c \in S : pos[c] = pos[x] => c = x

\* Whoever is not the newest has one before it.
LEMMA Successor ==
  ASSUME NEW pos \in [Thread -> Nat], NEW link, NEW S, NEW b, Ordered(link, S, b, pos),
         NEW y \in S, NEW z \in S, pos[y] < pos[z]
  PROVE  \E x \in S : link[x] = y
  <1>1. S \subseteq Thread
    BY DEF Ordered
  <1> DEFINE U == {x \in S : pos[y] < pos[x]}
             N == {pos[x] : x \in U}
  <1>2. N \in SUBSET Nat /\ N # {}
    BY <1>1
  <1>3. PICK n \in N : \A k \in N : n <= k
    BY <1>2, LeastNumber
  <1>4. PICK x \in U : pos[x] = n
    OBVIOUS
  <1>5. x \in S /\ pos[y] < pos[x]
    BY <1>4
  <1>6. link[x] \in S /\ pos[link[x]] < pos[x] /\ pos[y] <= pos[link[x]]
    BY <1>5 DEF Ordered
  <1>7. ~(pos[y] < pos[link[x]])
    <2>1. SUFFICES ASSUME pos[y] < pos[link[x]]
                   PROVE  FALSE
      OBVIOUS
    <2>2. pos[link[x]] \in N
      BY <2>1, <1>6
    <2>3. n <= pos[link[x]]
      BY <2>2, <1>3
    <2> QED BY <2>3, <1>1, <1>4, <1>5, <1>6
  <1>8. pos[link[x]] = pos[y]
    BY <1>1, <1>6, <1>7
  <1> QED BY <1>5, <1>6, <1>8 DEF Ordered

\* The oldest one leads nowhere.
LEMMA Bottom ==
  ASSUME NEW pos \in [Thread -> Nat], NEW link, NEW S, NEW b, Ordered(link, S, b, pos), S # {}
  PROVE  \E x \in S : link[x] = Null
  <1>1. S \subseteq Thread
    BY DEF Ordered
  <1> DEFINE N == {pos[x] : x \in S}
  <1>2. N \in SUBSET Nat /\ N # {}
    BY <1>1
  <1>3. PICK n \in N : \A k \in N : n <= k
    BY <1>2, LeastNumber
  <1>4. PICK x \in S : pos[x] = n
    OBVIOUS
  <1>5. link[x] # Null => pos[link[x]] \in N /\ pos[link[x]] < pos[x]
    BY DEF Ordered
  <1> QED BY <1>1, <1>2, <1>3, <1>4, <1>5

\* The way along the links is all of S.
LEMMA FollowOrdered ==
  ASSUME NEW pos \in [Thread -> Nat], NEW link \in [Thread -> Block], NEW S, NEW b, Ordered(link, S, b, pos)
  PROVE  Follow(link, b) = S
  <1> DEFINE F == Follow(link, b)
  <1>1. S \subseteq Thread /\ F \subseteq Thread
    BY FollowThreads DEF Ordered
  <1>2. Closed(link, S)
    BY DEF Ordered, Closed
  <1>3. F \subseteq S
    BY <1>1, <1>2, FollowLeast DEF Ordered
  <1>4. CASE b = Null
    BY <1>3, <1>4 DEF Ordered
  <1>5. CASE b # Null
    <2>1. b \in S /\ b \in F /\ \A c \in S : pos[c] <= pos[b]
      BY <1>1, <1>5, FollowFirst DEF Ordered
    <2>2. SUFFICES ASSUME NEW x \in S, x \notin F
                   PROVE  FALSE
      BY <1>3
    <2> DEFINE U == {y \in F : pos[x] < pos[y]}
               N == {pos[y] : y \in U}
    <2>3. x # b /\ pos[x] <= pos[b]
      BY <2>1, <2>2
    <2>4. pos[x] # pos[b]
      BY <2>1, <2>3 DEF Ordered
    <2>5. b \in U
      BY <1>1, <2>1, <2>3, <2>4
    <2>6. N \in SUBSET Nat /\ N # {}
      BY <1>1, <2>5
    <2>7. PICK n \in N : \A k \in N : n <= k
      BY <2>6, LeastNumber
    <2>8. PICK y \in U : pos[y] = n
      OBVIOUS
    <2>9. y \in F /\ y \in S /\ pos[x] < pos[y]
      BY <1>3, <2>8
    <2>10. link[y] \in S /\ pos[link[y]] < pos[y] /\ pos[x] <= pos[link[y]]
      BY <2>9 DEF Ordered
    <2>11. link[y] \in F
      BY <1>1, <2>9, <2>10, FollowClosed, NullIsNoThread DEF Closed
    <2>12. pos[x] # pos[link[y]]
      BY <2>2, <2>10, <2>11 DEF Ordered
    <2>13. link[y] \in U
      BY <1>1, <2>10, <2>11, <2>12
    <2>14. n <= pos[link[y]]
      BY <2>7, <2>13
    <2> QED BY <1>1, <2>8, <2>9, <2>10, <2>14
  <1> QED BY <1>4, <1>5

\* An order depends on the links of its blocks and on their numbers.
LEMMA OrderedSame ==
  ASSUME NEW link, NEW new, NEW S, NEW b, NEW pos, Ordered(link, S, b, pos), \A x \in S : new[x] = link[x]
  PROVE  Ordered(new, S, b, pos)
  BY DEF Ordered

LEMMA OrderedNone ==
  ASSUME NEW link, NEW pos
  PROVE  Ordered(link, {}, Null, pos)
  BY DEF Ordered

\* The blocks from one of them on are ordered too.
LEMMA OrderedBelow ==
  ASSUME NEW pos \in [Thread -> Nat], NEW link, NEW S, NEW b, Ordered(link, S, b, pos), NEW h \in S
  PROVE  Ordered(link, {c \in S : pos[c] <= pos[h]}, h, pos)
  <1> DEFINE U == {c \in S : pos[c] <= pos[h]}
  <1>1. S \subseteq Thread /\ h # Null
    BY NullIsNoThread DEF Ordered
  <1>2. \A x \in U : link[x] # Null => link[x] \in U /\ pos[link[x]] < pos[x]
    BY <1>1 DEF Ordered
  <1>3. \A x, c \in U : pos[c] < pos[x] => link[x] # Null /\ pos[c] <= pos[link[x]]
    BY DEF Ordered
  <1>4. h \in U
    BY <1>1
  <1>5. \A x, c \in U : pos[c] = pos[x] => c = x
    BY DEF Ordered
  <1> QED BY <1>1, <1>2, <1>3, <1>4, <1>5 DEF Ordered

\* A new block comes on top.
LEMMA OrderedPush ==
  ASSUME NEW pos \in [Thread -> Nat], NEW link \in [Thread -> Block], NEW S, NEW b, Ordered(link, S, b, pos),
         NEW t \in Thread, t \notin S, NEW n \in Nat, \A c \in S : pos[c] < n,
         NEW new, new = [link EXCEPT ![t] = b], NEW pos1, pos1 = [pos EXCEPT ![t] = n]
  PROVE  Ordered(new, S \cup {t}, t, pos1)
  <1> DEFINE U == S \cup {t}
  <1>1. S \subseteq Thread /\ t # Null /\ U # {}
    BY NullIsNoThread DEF Ordered
  <1>2. new[t] = b /\ pos1[t] = n /\ \A x \in S : new[x] = link[x] /\ pos1[x] = pos[x]
    BY <1>1
  <1>3. \A c \in U : pos1[c] <= pos1[t]
    BY <1>1, <1>2
  <1>4. \A x \in U : new[x] # Null => new[x] \in U /\ pos1[new[x]] < pos1[x]
    <2>1. TAKE x \in U
    <2>2. CASE x = t
      BY <1>2, <2>2 DEF Ordered
    <2>3. CASE x \in S
      BY <1>2, <2>3 DEF Ordered
    <2> QED BY <2>2, <2>3
  <1>5. \A x, c \in U : pos1[c] < pos1[x] => new[x] # Null /\ pos1[c] <= pos1[new[x]]
    <2>1. TAKE x, c \in U
    <2>2. CASE c = t
      BY <1>1, <1>2, <2>2, <1>3
    <2>3. CASE x = t /\ c \in S
      BY <1>1, <1>2, <2>3 DEF Ordered
    <2>4. CASE x \in S /\ c \in S
      BY <1>1, <1>2, <2>4 DEF Ordered
    <2> QED BY <2>2, <2>3, <2>4
  <1>6. \A x, c \in U : pos1[c] = pos1[x] => c = x
    BY <1>1, <1>2 DEF Ordered
  <1> QED BY <1>1, <1>3, <1>4, <1>5, <1>6 DEF Ordered

\* One block further down is taken out.
LEMMA OrderedWithout ==
  ASSUME NEW pos \in [Thread -> Nat], NEW link \in [Thread -> Block], NEW S, NEW b, Ordered(link, S, b, pos),
         NEW t \in Thread, t # b, NEW new,
         new = [x \in Thread |-> IF x \in S \ {t} /\ link[x] = t THEN link[t] ELSE link[x]]
  PROVE  Ordered(new, S \ {t}, b, pos)
  <1> DEFINE U == S \ {t}
  <1>1. S \subseteq Thread
    BY DEF Ordered
  <1>2. CASE t \notin S
    <2>1. \A x \in S : new[x] = link[x]
      BY <1>1, <1>2, NullIsNoThread DEF Ordered
    <2>2. S \ {t} = S
      BY <1>2
    <2> QED BY <2>1, <2>2, OrderedSame
  <1>3. CASE t \in S
    <2>1. b # Null /\ b \in U /\ \A c \in U : pos[c] <= pos[b]
      BY <1>3 DEF Ordered
    <2>2. \A x \in U : new[x] = IF link[x] = t THEN link[t] ELSE link[x]
      BY <1>1
    <2>3. \A x \in U : new[x] # Null => new[x] \in U /\ pos[new[x]] < pos[x]
      <3>1. TAKE x \in U
      <3>2. CASE link[x] = t
        <4>1. new[x] = link[t] /\ pos[t] < pos[x]
          BY <2>2, <3>2, NullIsNoThread DEF Ordered
        <4>2. new[x] # Null => new[x] \in S /\ pos[new[x]] < pos[t]
          BY <4>1, <1>3 DEF Ordered
        <4> QED BY <1>1, <1>3, <4>1, <4>2
      <3>3. CASE link[x] # t
        BY <2>2, <3>3 DEF Ordered
      <3> QED BY <3>2, <3>3
    <2>4. \A x, c \in U : pos[c] < pos[x] => new[x] # Null /\ pos[c] <= pos[new[x]]
      <3>1. SUFFICES ASSUME NEW x \in U, NEW c \in U, pos[c] < pos[x]
                     PROVE  new[x] # Null /\ pos[c] <= pos[new[x]]
        OBVIOUS
      <3>2. link[x] # Null /\ pos[c] <= pos[link[x]]
        BY <3>1 DEF Ordered
      <3>3. CASE link[x] = t
        <4>1. pos[c] # pos[t]
          BY <1>3, <3>1 DEF Ordered
        <4>2. pos[c] < pos[t]
          BY <1>1, <3>2, <3>3, <4>1
        <4> QED BY <4>2, <1>3, <2>2, <3>3 DEF Ordered
      <3>4. CASE link[x] # t
        BY <2>2, <3>2, <3>4
      <3> QED BY <3>3, <3>4
    <2>5. \A x, c \in U : pos[c] = pos[x] => c = x
      BY DEF Ordered
    <2> QED BY <1>1, <2>1, <2>3, <2>4, <2>5 DEF Ordered
  <1> QED BY <1>2, <1>3

\* The newest block goes, and the one behind it is the newest.
LEMMA OrderedPop ==
  ASSUME NEW pos \in [Thread -> Nat], NEW link \in [Thread -> Block], NEW S, NEW b, Ordered(link, S, b, pos),
         b # Null
  PROVE  Ordered(link, S \ {b}, link[b], pos) /\ (link[b] # Null => S \ {b} = {c \in S : pos[c] <= pos[link[b]]})
  <1> DEFINE U == S \ {b}
  <1>1. S \subseteq Thread /\ b \in S /\ \A c \in S : pos[c] <= pos[b]
    BY DEF Ordered
  <1>2. \A c \in U : pos[c] < pos[b]
    <2>1. \A c \in U : pos[c] # pos[b]
      BY <1>1 DEF Ordered
    <2> QED BY <1>1, <2>1
  <1>3. \A c \in U : link[b] # Null /\ pos[c] <= pos[link[b]]
    BY <1>1, <1>2 DEF Ordered
  <1>4. link[b] # Null => link[b] \in S /\ pos[link[b]] < pos[b]
    BY <1>1 DEF Ordered
  <1>5. link[b] # Null => link[b] \in U
    BY <1>1, <1>4
  <1>6. \A x \in U : link[x] # Null => link[x] \in U /\ pos[link[x]] < pos[x]
    <2>1. SUFFICES ASSUME NEW x \in U, link[x] # Null
                   PROVE  link[x] \in U /\ pos[link[x]] < pos[x]
      OBVIOUS
    <2>2. link[x] \in S /\ pos[link[x]] < pos[x]
      BY <2>1 DEF Ordered
    <2> QED BY <1>1, <1>2, <2>2
  <1>7. \A x, c \in U : (pos[c] < pos[x] => link[x] # Null /\ pos[c] <= pos[link[x]]) /\ (pos[c] = pos[x] => c = x)
    BY DEF Ordered
  <1>8. Ordered(link, U, link[b], pos)
    BY <1>1, <1>3, <1>5, <1>6, <1>7 DEF Ordered
  <1>9. link[b] # Null => U = {c \in S : pos[c] <= pos[link[b]]}
    BY <1>1, <1>3, <1>4
  <1> QED BY <1>8, <1>9

\* The oldest block goes.
LEMMA OrderedRest ==
  ASSUME NEW pos \in [Thread -> Nat], NEW link \in [Thread -> Block], NEW S, NEW b, Ordered(link, S, b, pos),
         NEW o \in S, \A c \in S : pos[o] <= pos[c], NEW rest \in S, link[rest] = o,
         NEW new, new[rest] = Null, \A x \in S \ {o, rest} : new[x] = link[x]
  PROVE  Ordered(new, S \ {o}, b, pos)
  <1> DEFINE U == S \ {o}
  <1>1. S \subseteq Thread /\ b # Null /\ b \in S /\ \A c \in S : pos[c] <= pos[b]
    BY DEF Ordered
  <1>2. pos[o] < pos[rest] /\ o # Null
    BY <1>1, NullIsNoThread DEF Ordered
  <1>3. rest \in U /\ b \in U
    BY <1>1, <1>2
  <1>4. \A c \in U : pos[rest] <= pos[c]
    <2>1. SUFFICES ASSUME NEW c \in U, pos[c] < pos[rest]
                   PROVE  FALSE
      BY <1>1
    <2>2. pos[c] <= pos[o]
      BY <2>1 DEF Ordered
    <2>3. pos[c] = pos[o]
      BY <1>1, <2>2
    <2> QED BY <2>3 DEF Ordered
  <1>5. \A x \in U : new[x] # Null => new[x] \in U /\ pos[new[x]] < pos[x]
    <2>1. SUFFICES ASSUME NEW x \in U, new[x] # Null
                   PROVE  new[x] \in U /\ pos[new[x]] < pos[x]
      OBVIOUS
    <2>2. x # rest /\ new[x] = link[x]
      BY <2>1
    <2>3. link[x] \in S /\ pos[link[x]] < pos[x]
      BY <2>1, <2>2 DEF Ordered
    <2>4. pos[rest] # pos[x]
      BY <2>2 DEF Ordered
    <2>5. pos[rest] < pos[x]
      BY <1>1, <1>4, <2>4
    <2>6. pos[rest] <= pos[link[x]]
      BY <2>5 DEF Ordered
    <2> QED BY <1>1, <1>2, <2>2, <2>3, <2>6
  <1>6. \A x, c \in U : pos[c] < pos[x] => new[x] # Null /\ pos[c] <= pos[new[x]]
    <2>1. SUFFICES ASSUME NEW x \in U, NEW c \in U, pos[c] < pos[x]
                   PROVE  new[x] # Null /\ pos[c] <= pos[new[x]]
      OBVIOUS
    <2>2. x # rest
      BY <1>1, <1>4, <2>1
    <2> QED BY <2>1, <2>2 DEF Ordered
  <1>7. \A x, c \in U : pos[c] = pos[x] => c = x
    BY DEF Ordered
  <1> QED BY <1>1, <1>3, <1>5, <1>6, <1>7 DEF Ordered

\* The end is the only block that leads nowhere.
LEMMA OrderedEnd ==
  ASSUME NEW pos \in [Thread -> Nat], NEW link, NEW S, NEW b, Ordered(link, S, b, pos), S # {},
         NEW e, e = CHOOSE x \in S : link[x] = Null
  PROVE  e \in S /\ link[e] = Null /\ \A y \in S : y # e => link[y] # Null
  <1>1. e \in S /\ link[e] = Null
    BY Bottom
  <1>2. \A x \in S : pos[x] \in Nat
    BY DEF Ordered
  <1>3. ASSUME NEW y \in S, link[y] = Null
        PROVE  y = e
    BY <1>1, <1>2, <1>3 DEF Ordered
  <1> QED BY <1>1, <1>3

\* The end e of S leads to h, the newest of X; the numbers of S are raised above those of X.
JoinedLinks(link, new, S, e, X, h) ==
  /\ e \in S /\ link[e] = Null /\ new[e] = h
  /\ \A y \in S : y # e => link[y] # Null /\ new[y] = link[y]
  /\ \A y \in X : new[y] = link[y]
JoinedNumbers(r, pos, r1, S, X, h) ==
  /\ \A y \in S : r1[y] = r[y] + pos[h] + 1
  /\ \A y \in X : r1[y] = pos[y]

\* One order is continued by another.
LEMMA OrderedJoin ==
  ASSUME NEW r \in [Thread -> Nat], NEW link, NEW S, NEW b, Ordered(link, S, b, r), b # Null,
         NEW pos \in [Thread -> Nat], NEW X, NEW h, Ordered(link, X, h, pos), h # Null, S \cap X = {},
         NEW e, NEW new, JoinedLinks(link, new, S, e, X, h), NEW r1, JoinedNumbers(r, pos, r1, S, X, h)
  PROVE  Ordered(new, S \cup X, b, r1)
  <1>a. /\ e \in S /\ link[e] = Null /\ new[e] = h
        /\ \A y \in S : y # e => link[y] # Null
        /\ \A y \in S : y # e => new[y] = link[y]
        /\ \A y \in X : new[y] = link[y]
    BY DEF JoinedLinks
  <1>b. (\A y \in S : r1[y] = r[y] + pos[h] + 1) /\ \A y \in X : r1[y] = pos[y]
    BY DEF JoinedNumbers
  <1>1. S \subseteq Thread /\ X \subseteq Thread /\ b \in S /\ h \in X /\ pos[h] \in Nat
    BY <1>a, <1>b DEF Ordered
  <1>2. \A y \in S : r[y] \in Nat /\ r1[y] = r[y] + pos[h] + 1
    BY <1>a, <1>b, <1>1
  <1>3. \A y \in X : pos[y] \in Nat /\ r1[y] = pos[y] /\ pos[y] <= pos[h]
    BY <1>a, <1>b, <1>1 DEF Ordered
  <1>4. \A c \in S \cup X : r1[c] <= r1[b]
    <2>1. \A c \in S : r[c] <= r[b]
      BY <1>a, <1>b DEF Ordered
    <2> QED BY <1>a, <1>b, <1>1, <1>2, <1>3, <2>1
  <1>5. ASSUME NEW y \in S \cup X, new[y] # Null
        PROVE  new[y] \in S \cup X /\ r1[new[y]] < r1[y]
    <2>1. CASE y = e
      BY <1>a, <1>b, <1>1, <1>2, <1>3, <2>1
    <2>2. CASE y \in S /\ y # e
      <3>1. new[y] \in S /\ r[new[y]] < r[y]
        BY <1>a, <1>b, <1>5, <2>2 DEF Ordered
      <3> QED BY <1>a, <1>b, <1>1, <1>2, <3>1, <2>2
    <2>3. CASE y \in X
      <3>1. new[y] \in X /\ pos[new[y]] < pos[y]
        BY <1>a, <1>b, <1>5, <2>3 DEF Ordered
      <3> QED BY <1>a, <1>b, <1>3, <3>1, <2>3
    <2> QED BY <1>a, <1>b, <2>1, <2>2, <2>3
  <1>6. ASSUME NEW y \in S \cup X, NEW c \in S \cup X, r1[c] < r1[y]
        PROVE  new[y] # Null /\ r1[c] <= r1[new[y]]
    <2>1. CASE y \in X
      <3>1. c \in X
        BY <1>a, <1>b, <1>1, <1>2, <1>3, <1>6, <2>1
      <3>2. new[y] # Null /\ pos[c] <= pos[new[y]]
        BY <1>a, <1>b, <1>3, <1>6, <2>1, <3>1 DEF Ordered
      <3>3. new[y] \in X
        BY <1>a, <1>b, <2>1, <3>2 DEF Ordered
      <3> QED BY <1>a, <1>b, <1>3, <3>1, <3>2, <3>3
    <2>2. CASE y = e
      <3>1. c \in X
        <4>1. ASSUME c \in S
              PROVE  FALSE
          <5>1. r[c] < r[e]
            BY <1>a, <1>b, <1>1, <1>2, <1>6, <2>2, <4>1
          <5> QED BY <1>a, <1>b, <4>1, <5>1 DEF Ordered
        <4> QED BY <1>a, <1>b, <4>1
      <3> QED BY <1>a, <1>b, <1>1, <1>3, <2>2, <3>1
    <2>3. CASE y \in S /\ y # e
      <3>1. new[y] \in S
        BY <1>a, <1>b, <2>3 DEF Ordered
      <3>2. CASE c \in S
        <4>1. r[c] < r[y]
          BY <1>a, <1>b, <1>1, <1>2, <1>6, <2>3, <3>2
        <4>2. r[c] <= r[new[y]]
          BY <1>a, <1>b, <2>3, <3>2, <4>1 DEF Ordered
        <4> QED BY <1>a, <1>b, <1>1, <1>2, <2>3, <3>1, <3>2, <4>2
      <3>3. CASE c \in X
        BY <1>a, <1>b, <1>1, <1>2, <1>3, <2>3, <3>1, <3>3
      <3> QED BY <1>a, <1>b, <3>2, <3>3
    <2> QED BY <1>a, <1>b, <2>1, <2>2, <2>3
  <1>7. ASSUME NEW y \in S \cup X, NEW c \in S \cup X, r1[c] = r1[y]
        PROVE  c = y
    <2>1. CASE y \in S /\ c \in S
      <3>1. r[c] = r[y]
        BY <1>a, <1>b, <1>1, <1>2, <1>7, <2>1
      <3> QED BY <1>a, <1>b, <2>1, <3>1 DEF Ordered
    <2>2. CASE y \in X /\ c \in X
      <3>1. pos[c] = pos[y]
        BY <1>a, <1>b, <1>3, <1>7, <2>2
      <3> QED BY <1>a, <1>b, <2>2, <3>1 DEF Ordered
    <2>3. CASE ~(y \in S /\ c \in S) /\ ~(y \in X /\ c \in X)
      BY <1>a, <1>b, <1>1, <1>2, <1>3, <1>7, <2>3
    <2> QED BY <1>a, <1>b, <2>1, <2>2, <2>3
  <1> QED BY <1>a, <1>b, <1>1, <1>4, <1>5, <1>6, <1>7 DEF Ordered

-----------------------------------------------------------------------------
(* Walks from a block h of the list to one that knows the oldest.          *)

\* m is the newest block that knows the oldest.
Known(known, S, pos, m) ==
  /\ m \in S /\ known[m] \in S
  /\ \A c \in S : pos[known[m]] <= pos[c]
  /\ \A c \in S : pos[c] > pos[m] => known[c] = Null

\* The way to the newer blocks is there for those older than m.
Forward(forth, link, S, pos, m) ==
  \A c \in S :
    /\ forth[c] # Null => forth[c] \in S /\ link[forth[c]] = c
    /\ pos[c] < pos[m] => forth[c] # Null

\* m is not newer than h, and from h on there is no way to the newer blocks.
Above(forth, S, pos, m, h) ==
  /\ h \in S /\ pos[m] <= pos[h]
  /\ \A c \in S : pos[c] >= pos[h] => forth[c] = Null

\* The walk goes back to the first that knows the oldest, and links each block to the one before.
WalkOf(link, known, h) == Follow([x \in Thread |-> IF known[x] = Null THEN link[x] ELSE Null], h)
OldestOf(link, known, h) == known[CHOOSE x \in WalkOf(link, known, h) : known[x] # Null]
LinksOf(link, known, forth, h) ==
  [b \in Thread |-> IF b \in WalkOf(link, known, h) \ {h}
                      THEN CHOOSE x \in WalkOf(link, known, h) : link[x] = b ELSE forth[b]]

\* What a walk from h comes by.
LEMMA WalkedOf ==
  ASSUME NEW pos \in [Thread -> Nat], NEW link \in [Thread -> Block], NEW known, NEW S, NEW b, Ordered(link, S, b, pos),
         NEW m, Known(known, S, pos, m), NEW h \in S, pos[m] <= pos[h]
  PROVE  WalkOf(link, known, h) = {c \in S : pos[m] <= pos[c] /\ pos[c] <= pos[h]}
  <1> DEFINE way == [x \in Thread |-> IF known[x] = Null THEN link[x] ELSE Null]
             U == {c \in S : pos[m] <= pos[c] /\ pos[c] <= pos[h]}
  <1>1. S \subseteq Thread /\ m \in S /\ known[m] \in S /\ known[m] # Null /\ h # Null
    BY NullIsNoThread DEF Ordered, Known
  <1>2. \A c \in S : pos[c] \in Nat
    BY <1>1
  <1>3. \A x \in U : way[x] = IF x = m THEN Null ELSE link[x]
    <2>1. TAKE x \in U
    <2>2. CASE x = m
      BY <1>1, <2>2
    <2>3. CASE x # m
      <3>1. pos[x] # pos[m]
        BY <1>1, <2>3 DEF Ordered
      <3>2. pos[x] > pos[m]
        BY <1>1, <1>2, <3>1
      <3> QED BY <1>1, <2>3, <3>2 DEF Known
    <2> QED BY <2>2, <2>3
  <1>4. ASSUME NEW x \in U, way[x] # Null
        PROVE  way[x] \in U /\ pos[way[x]] < pos[x]
    <2>1. x # m /\ way[x] = link[x]
      BY <1>3, <1>4
    <2>2. pos[m] < pos[x]
      <3>1. pos[m] # pos[x]
        BY <1>1, <2>1 DEF Ordered
      <3> QED BY <1>1, <1>2, <3>1
    <2>3. link[x] \in S /\ pos[link[x]] < pos[x] /\ pos[m] <= pos[link[x]]
      BY <1>1, <1>4, <2>1, <2>2 DEF Ordered
    <2> QED BY <1>2, <2>1, <2>3
  <1>5. ASSUME NEW x \in U, NEW c \in U, pos[c] < pos[x]
        PROVE  way[x] # Null /\ pos[c] <= pos[way[x]]
    <2>1. x # m
      BY <1>1, <1>2, <1>5
    <2>2. way[x] = link[x]
      BY <1>3, <2>1
    <2> QED BY <1>5, <2>2 DEF Ordered
  <1>6. \A x, c \in U : pos[c] = pos[x] => c = x
    BY DEF Ordered
  <1>7. h \in U
    BY <1>1, <1>2
  <1>8. U \subseteq Thread
    BY <1>1
  <1>9. \A c \in U : pos[c] <= pos[h]
    OBVIOUS
  <1>10. way \in [Thread -> Block]
    BY DEF Block
  <1>11. Ordered(way, U, h, pos)
    <2> HIDE DEF way, U
    <2> QED BY <1>1, <1>4, <1>5, <1>6, <1>7, <1>8, <1>9 DEF Ordered
  <1>12. Follow(way, h) = U
    <2> HIDE DEF way, U
    <2> QED BY <1>10, <1>11, FollowOrdered
  <1> QED BY <1>12 DEF WalkOf

\* It ends at the oldest.
LEMMA FoundOf ==
  ASSUME NEW pos \in [Thread -> Nat], NEW link \in [Thread -> Block], NEW known, NEW S, NEW b, Ordered(link, S, b, pos),
         NEW m, Known(known, S, pos, m), NEW h \in S, pos[m] <= pos[h]
  PROVE  OldestOf(link, known, h) = known[m] /\ OldestOf(link, known, h) \in S /\ \A c \in S : pos[OldestOf(link, known, h)] <= pos[c]
  <1>1. S \subseteq Thread /\ m \in S /\ known[m] \in S /\ known[m] # Null
    BY NullIsNoThread DEF Ordered, Known
  <1>2. \A c \in S : pos[c] \in Nat
    BY <1>1
  <1>3. WalkOf(link, known, h) = {c \in S : pos[m] <= pos[c] /\ pos[c] <= pos[h]}
    BY WalkedOf
  <1>4. m \in WalkOf(link, known, h) /\ WalkOf(link, known, h) \subseteq S
    BY <1>1, <1>2, <1>3
  <1>5. ASSUME NEW x \in WalkOf(link, known, h), known[x] # Null
        PROVE  x = m
    <2>1. ~(pos[x] > pos[m]) /\ x \in S
      BY <1>4, <1>5 DEF Known
    <2>2. pos[x] = pos[m]
      BY <1>1, <1>2, <1>3, <2>1
    <2> QED BY <1>1, <2>1, <2>2 DEF Ordered
  <1>6. (CHOOSE x \in WalkOf(link, known, h) : known[x] # Null) = m
    BY <1>1, <1>4, <1>5
  <1> QED BY <1>1, <1>6 DEF OldestOf, Known

\* Each block that is older than h leads to the next, and no other one has changed.
Links(new, link, forth, S, pos, h) ==
  /\ new \in [Thread -> Block]
  /\ \A x \in Thread \ S : new[x] = forth[x]
  /\ Forward(new, link, S, pos, h)
  /\ \A c \in S : pos[c] >= pos[h] => new[c] = Null

\* So it is after the walk.
LEMMA LinkedOf ==
  ASSUME NEW pos \in [Thread -> Nat], NEW link \in [Thread -> Block], NEW known, NEW forth \in [Thread -> Block],
         NEW S, NEW b, Ordered(link, S, b, pos),
         NEW m, Known(known, S, pos, m), Forward(forth, link, S, pos, m), NEW h, Above(forth, S, pos, m, h)
  PROVE  Links(LinksOf(link, known, forth, h), link, forth, S, pos, h)
  <1> DEFINE U == {c \in S : pos[m] <= pos[c] /\ pos[c] <= pos[h]}
             new == LinksOf(link, known, forth, h)
             Way(x) == CHOOSE y \in U : link[y] = x
  <1>1. S \subseteq Thread /\ m \in S /\ h \in S /\ h # Null /\ pos[m] <= pos[h]
    BY NullIsNoThread DEF Ordered, Known, Above
  <1>2. \A c \in S : pos[c] \in Nat
    BY <1>1
  <1>3. WalkOf(link, known, h) = U
    BY <1>1, WalkedOf
  <1>4. \A x \in Thread : new[x] = IF x \in U \ {h} THEN Way(x) ELSE forth[x]
    BY <1>3 DEF LinksOf
  <1>5. ASSUME NEW x \in U \ {h}
        PROVE  Way(x) \in U /\ link[Way(x)] = x /\ Way(x) # Null
    <2>1. pos[x] < pos[h]
      <3>1. pos[x] # pos[h]
        BY <1>1, <1>5 DEF Ordered
      <3> QED BY <1>1, <1>2, <1>5, <3>1
    <2>2. Ordered(link, {c \in S : pos[c] <= pos[h]}, h, pos)
      BY <1>1, OrderedBelow
    <2>3. x \in {c \in S : pos[c] <= pos[h]} /\ h \in {c \in S : pos[c] <= pos[h]}
      BY <1>1, <1>2, <1>5
    <2>4. PICK y \in {c \in S : pos[c] <= pos[h]} : link[y] = x
      <3> DEFINE V == {c \in S : pos[c] <= pos[h]}
      <3>1. Ordered(link, V, h, pos) /\ x \in V /\ h \in V
        BY <2>2, <2>3
      <3> HIDE DEF V
      <3>2. \E y \in V : link[y] = x
        BY <3>1, <2>1, Successor
      <3> QED BY <3>2 DEF V
    <2>5. pos[x] < pos[y]
      <3>1. x # Null
        BY <1>1, <1>5, NullIsNoThread
      <3> QED BY <2>4, <3>1 DEF Ordered
    <2>6. y \in U
      BY <1>1, <1>2, <1>5, <2>4, <2>5
    <2>7. y # Null
      BY <1>1, <2>4, NullIsNoThread
    <2>8. \E z \in U : link[z] = x
      BY <2>4, <2>6
    <2>9. Way(x) \in U /\ link[Way(x)] = x
      BY <2>8
    <2> QED BY <1>1, <2>9, NullIsNoThread
  <1>6. new = [x \in Thread |-> IF x \in U \ {h} THEN Way(x) ELSE forth[x]]
    BY <1>3 DEF LinksOf
  <1> HIDE DEF Way
  <1>7. new \in [Thread -> Block]
    <2>1. \A x \in Thread : (IF x \in U \ {h} THEN Way(x) ELSE forth[x]) \in Block
      BY <1>1, <1>5 DEF Block
    <2> HIDE DEF new, U
    <2> QED BY <1>6, <2>1
  <1>8. \A x \in Thread \ S : new[x] = forth[x]
    <2> HIDE DEF new
    <2> QED BY <1>4
  <1>9. ASSUME NEW c \in S
        PROVE  /\ new[c] # Null => new[c] \in S /\ link[new[c]] = c
               /\ pos[c] < pos[h] => new[c] # Null
    <2> HIDE DEF new
    <2>1. CASE c \in U \ {h}
      BY <1>1, <1>4, <1>5, <2>1
    <2>2. CASE c \notin U \ {h}
      <3>1. new[c] = forth[c]
        BY <1>1, <1>4, <2>2
      <3>2. ASSUME pos[c] < pos[h]
            PROVE  pos[c] < pos[m]
        BY <1>1, <1>2, <2>2, <3>2
      <3> QED BY <3>1, <3>2 DEF Forward
    <2> QED BY <2>1, <2>2
  <1>10. ASSUME NEW c \in S, pos[c] >= pos[h]
         PROVE  new[c] = Null
    <2> HIDE DEF new
    <2>1. c \notin U \ {h}
      <3>1. ASSUME c \in U, c # h
            PROVE  FALSE
        <4>1. pos[c] = pos[h]
          BY <1>1, <1>2, <1>10, <3>1
        <4> QED BY <1>1, <3>1, <4>1 DEF Ordered
      <3> QED BY <3>1
    <2> QED BY <1>1, <1>4, <1>10, <2>1 DEF Above
  <1> QED BY <1>7, <1>8, <1>9, <1>10 DEF Forward, Links

-----------------------------------------------------------------------------
(* The list of the condition variable, and the two walks of its owner.     *)

LEMMA WalkedIs ==
  ASSUME NEW pos \in [Thread -> Nat], back \in [Thread -> Block], NEW S, NEW b, Ordered(back, S, b, pos),
         NEW m, Known(notify, S, pos, m), NEW h \in S, pos[m] <= pos[h]
  PROVE  Walked(h) = {c \in S : pos[m] <= pos[c] /\ pos[c] <= pos[h]}
  <1>1. Walked(h) = WalkOf(back, notify, h)
    BY DEF Walked, WalkOf
  <1> QED BY <1>1, WalkedOf

LEMMA OldestIs ==
  ASSUME NEW pos \in [Thread -> Nat], back \in [Thread -> Block], NEW S, NEW b, Ordered(back, S, b, pos),
         NEW m, Known(notify, S, pos, m), NEW h \in S, pos[m] <= pos[h]
  PROVE  Oldest(h) = notify[m] /\ Oldest(h) \in S /\ \A c \in S : pos[Oldest(h)] <= pos[c]
  <1>1. Oldest(h) = OldestOf(back, notify, h)
    BY DEF Oldest, OldestOf, Walked, WalkOf
  <1> QED BY <1>1, FoundOf

LEMMA LinkedIs ==
  ASSUME NEW pos \in [Thread -> Nat], back \in [Thread -> Block], next \in [Thread -> Block],
         NEW S, NEW b, Ordered(back, S, b, pos),
         NEW m, Known(notify, S, pos, m), Forward(next, back, S, pos, m), NEW h, Above(next, S, pos, m, h)
  PROVE  /\ Linked(h) \in [Thread -> Block]
         /\ \A x \in Thread \ S : Linked(h)[x] = next[x]
         /\ Forward(Linked(h), back, S, pos, h)
         /\ \A c \in S : pos[c] >= pos[h] => Linked(h)[c] = Null
  <1>1. Linked(h) = LinksOf(back, notify, next, h)
    BY DEF Linked, LinksOf, Walked, WalkOf
  <1>2. Links(LinksOf(back, notify, next, h), back, next, S, pos, h)
    BY LinkedOf
  <1> QED BY <1>1, <1>2 DEF Links

\* The blocks on the list S of the word w, whose owner saw it last as c: numbered by pos
\* and linked by "link", with the hints "known" and "forth" as far as the owner's walks
\* have got.
ListedAt(w, c, link, known, forth, S, pos, m) ==
  /\ Ordered(link, S, w.block, pos)
  /\ S # {} => Known(known, S, pos, m) /\ Forward(forth, link, S, pos, m)
  /\ w.locked => Above(forth, S, pos, m, c.block)

LEMMA ListedNone ==
  ASSUME NEW c, NEW link, NEW known, NEW forth, NEW pos, NEW m
  PROVE  ListedAt(Empty, c, link, known, forth, {}, pos, m)
  BY OrderedNone DEF ListedAt, Empty, Word

\* What is written into other blocks does not matter.
LEMMA ListedSame ==
  ASSUME NEW w, NEW c, NEW link, NEW known, NEW forth, NEW S, NEW pos, NEW m,
         ListedAt(w, c, link, known, forth, S, pos, m),
         NEW w1, w1.block = w.block, NEW c1, w1.locked => w.locked /\ c1.block = c.block,
         NEW link1, NEW known1, NEW forth1,
         \A x \in S : link1[x] = link[x] /\ known1[x] = known[x] /\ forth1[x] = forth[x]
  PROVE  ListedAt(w1, c1, link1, known1, forth1, S, pos, m)
  <1>1. Ordered(link1, S, w1.block, pos)
    BY OrderedSame DEF ListedAt
  <1>2. S # {} => Known(known1, S, pos, m)
    BY DEF ListedAt, Known
  <1>3. S # {} => Forward(forth1, link1, S, pos, m)
    BY DEF ListedAt, Forward
  <1>4. w1.locked => Above(forth1, S, pos, m, c1.block)
    BY DEF ListedAt, Above
  <1> QED BY <1>1, <1>2, <1>3, <1>4 DEF ListedAt

\* Nobody is newer than the newest.
LEMMA TopAbove ==
  ASSUME NEW pos \in [Thread -> Nat], NEW link, NEW known, NEW forth, NEW S, NEW b, NEW m, S # {},
         Ordered(link, S, b, pos), Known(known, S, pos, m), Forward(forth, link, S, pos, m)
  PROVE  Above(forth, S, pos, m, b)
  <1>1. S \subseteq Thread /\ b \in S /\ \A c \in S : pos[c] <= pos[b]
    BY DEF Ordered
  <1>2. \A c \in S : pos[c] \in Nat
    BY <1>1
  <1>3. ASSUME NEW c \in S, pos[c] >= pos[b], forth[c] # Null
        PROVE  FALSE
    <2>1. forth[c] \in S /\ link[forth[c]] = c
      BY <1>3 DEF Forward
    <2>2. pos[c] < pos[forth[c]]
      BY <1>1, <1>3, <2>1, NullIsNoThread DEF Ordered
    <2> QED BY <1>1, <1>2, <1>3, <2>1, <2>2
  <1> QED BY <1>1, <1>3 DEF Known, Above

\* The list is locked, or looked at anew by its owner.
LEMMA ListedLock ==
  ASSUME NEW w, NEW c, NEW link, NEW known, NEW forth, NEW S, NEW pos \in [Thread -> Nat], NEW m,
         ListedAt(w, c, link, known, forth, S, pos, m), w.block # Null,
         NEW w1, w1.block = w.block, NEW c1, c1.block = w.block
  PROVE  ListedAt(w1, c1, link, known, forth, S, pos, m)
  <1>1. S # {} /\ Ordered(link, S, w.block, pos)
    BY DEF ListedAt, Ordered
  <1>2. Above(forth, S, pos, m, c1.block)
    BY <1>1, TopAbove DEF ListedAt
  <1> QED BY <1>1, <1>2 DEF ListedAt

\* What a thread that queues its block writes, the first one another hint than the others.
PushedLinks(link, known, w, t, m, link1, known1, m1) ==
  /\ link1 = [link EXCEPT ![t] = w.block]
  /\ known1 = [known EXCEPT ![t] = IF w.block = Null THEN t ELSE Null]
  /\ m1 = IF w.block = Null THEN t ELSE m
PushedWord(w, c, S, t, w1, c1) ==
  /\ w1.block = t
  /\ w1.locked => S # {} /\ (c1.block = t \/ (w.locked /\ c1.block = c.block))

\* A block comes on top; the first one is the oldest and knows it.
LEMMA ListedPush ==
  ASSUME NEW w, NEW c, NEW link \in [Thread -> Block], NEW known \in [Thread -> Block],
         NEW forth \in [Thread -> Block], NEW S, NEW pos \in [Thread -> Nat], NEW m,
         ListedAt(w, c, link, known, forth, S, pos, m),
         NEW t \in Thread, t \notin S, forth[t] = Null,
         NEW n \in Nat, \A x \in S : pos[x] < n,
         NEW w1, NEW c1, PushedWord(w, c, S, t, w1, c1),
         NEW link1, NEW known1, NEW m1, PushedLinks(link, known, w, t, m, link1, known1, m1)
  PROVE  ListedAt(w1, c1, link1, known1, forth, S \cup {t}, [pos EXCEPT ![t] = n], m1)
  <1> DEFINE U == S \cup {t}
             pos1 == [pos EXCEPT ![t] = n]
  <1>a. /\ w1.block = t /\ (w1.locked => S # {} /\ (c1.block = t \/ (w.locked /\ c1.block = c.block)))
        /\ link1 = [link EXCEPT ![t] = w.block]
        /\ known1 = [known EXCEPT ![t] = IF w.block = Null THEN t ELSE Null]
        /\ m1 = IF w.block = Null THEN t ELSE m
    BY DEF PushedWord, PushedLinks
  <1>1. S \subseteq Thread /\ Ordered(link, S, w.block, pos) /\ (w.block = Null <=> S = {})
    BY <1>a DEF ListedAt, Ordered
  <1>2. Ordered(link1, U, t, pos1)
    BY <1>a, <1>1, OrderedPush
  <1>3. pos1[t] = n /\ \A x \in S : pos1[x] = pos[x] /\ link1[x] = link[x] /\ known1[x] = known[x] /\ pos[x] \in Nat
    BY <1>a, <1>1
  <1>4. Known(known1, U, pos1, m1)
    <2>1. CASE S = {}
      BY <1>a, <1>1, <1>3, <2>1 DEF Known
    <2>2. CASE S # {}
      <3>1. Known(known, S, pos, m) /\ m1 = m
        BY <1>a, <1>1, <2>2 DEF ListedAt
      <3>2. m \in S /\ known[m] \in S /\ known1[m] = known[m]
        BY <1>a, <1>3, <3>1 DEF Known
      <3>3. \A x \in U : pos1[known1[m]] <= pos1[x]
        BY <1>a, <1>3, <3>1, <3>2 DEF Known
      <3>4. known1[t] = Null
        BY <1>a, <1>1, <2>2
      <3>5. \A x \in U : pos1[x] > pos1[m] => known1[x] = Null
        BY <1>a, <1>3, <3>1, <3>2, <3>4 DEF Known
      <3> QED BY <1>a, <3>1, <3>2, <3>3, <3>5 DEF Known
    <2> QED BY <1>a, <2>1, <2>2
  <1>5. Forward(forth, link1, U, pos1, m1)
    <2>1. CASE S = {}
      BY <1>a, <1>1, <1>3, <2>1, NullIsNoThread DEF Forward
    <2>2. CASE S # {}
      <3>1. Forward(forth, link, S, pos, m) /\ Known(known, S, pos, m) /\ m1 = m
        BY <1>a, <1>1, <2>2 DEF ListedAt
      <3>2. \A x \in S : forth[x] # Null => forth[x] \in U /\ link1[forth[x]] = x
        BY <1>a, <1>3, <3>1 DEF Forward
      <3>3. \A x \in S : pos1[x] < pos1[m1] => forth[x] # Null
        BY <1>a, <1>3, <3>1 DEF Forward, Known
      <3>4. ~(pos1[t] < pos1[m1])
        BY <1>a, <1>3, <3>1 DEF Known
      <3> QED BY <1>a, <3>2, <3>3, <3>4 DEF Forward
    <2> QED BY <1>a, <2>1, <2>2
  <1>6. ASSUME w1.locked
        PROVE  Above(forth, U, pos1, m1, c1.block)
    <2>1. CASE c1.block = t
      <3>1. t # Null /\ U # {}
        BY <1>a, NullIsNoThread
      <3>2. pos1 \in [Thread -> Nat]
        BY <1>a
      <3> QED BY <1>a, <1>2, <1>4, <1>5, <2>1, <3>1, <3>2, TopAbove
    <2>2. CASE w.locked /\ c1.block = c.block
      <3>1. Above(forth, S, pos, m, c1.block)
        BY <1>a, <2>2 DEF ListedAt
      <3>2. m1 = m /\ m \in S
        BY <1>a, <1>1, <1>6 DEF ListedAt, Known
      <3> QED BY <1>a, <1>3, <3>1, <3>2 DEF Above
    <2> QED BY <1>a, <1>6, <2>1, <2>2
  <1> QED BY <1>a, <1>2, <1>4, <1>5, <1>6 DEF ListedAt

\* The owner has walked from h on.
LEMMA ListedLinked ==
  ASSUME back \in [Thread -> Block], next \in [Thread -> Block], notify \in [Thread -> Block],
         NEW S, NEW pos \in [Thread -> Nat], NEW m,
         ListedAt(word, Current, back, notify, next, S, pos, m), word.locked,
         NEW h, h = Current.block, NEW w1, w1.block = word.block, NEW c1, w1.locked => c1.block = word.block,
         NEW known1, known1 = [notify EXCEPT ![h] = Oldest(h)]
  PROVE  /\ ListedAt(w1, c1, back, notify, Linked(h), S, pos, m)
         /\ ListedAt(w1, c1, back, known1, Linked(h), S, pos, h)
  <1>1. Ordered(back, S, word.block, pos) /\ Above(next, S, pos, m, h) /\ h \in S /\ pos[m] <= pos[h]
    BY DEF ListedAt, Above
  <1>2. S # {} /\ S \subseteq Thread /\ Known(notify, S, pos, m) /\ Forward(next, back, S, pos, m)
    BY <1>1 DEF ListedAt, Ordered
  <1>3. Forward(Linked(h), back, S, pos, h)
    BY <1>1, <1>2, LinkedIs
  <1>4. \A c \in S : pos[c] \in Nat
    BY <1>2
  <1>5. m \in S
    BY <1>2 DEF Known
  <1>6. Forward(Linked(h), back, S, pos, m)
    BY <1>1, <1>3, <1>4, <1>5 DEF Forward
  <1>7. Known(known1, S, pos, h)
    <2>1. Oldest(h) \in S /\ \A c \in S : pos[Oldest(h)] <= pos[c]
      BY <1>1, <1>2, OldestIs
    <2>2. known1[h] = Oldest(h)
      BY <1>1, <1>2
    <2>3. ASSUME NEW c \in S, pos[c] > pos[h]
          PROVE  known1[c] = Null
      <3>1. pos[c] > pos[m] /\ c # h
        BY <1>1, <1>4, <1>5, <2>3
      <3> QED BY <1>2, <3>1 DEF Known
    <2> QED BY <1>1, <2>1, <2>2, <2>3 DEF Known
  <1>8. Above(Linked(h), S, pos, m, word.block) /\ Above(Linked(h), S, pos, h, word.block)
    <2> HIDE DEF Linked
    <2> QED BY <1>1, <1>2, <1>3, <1>6, <1>7, TopAbove
  <1> QED BY <1>1, <1>2, <1>3, <1>6, <1>7, <1>8 DEF ListedAt

\* o is the oldest as a walk from h finds it, and "rest" the one after it, which leads
\* nowhere once o is off.
OldestLeaves(S, h, o, rest, link1) ==
  /\ h = Current.block /\ o = Oldest(h) /\ rest = Linked(h)[o] /\ rest # Null
  /\ link1[rest] = Null /\ \A x \in S \ {o, rest} : link1[x] = back[x]

\* The owner takes the oldest block off, which is not the newest.
LEMMA ListedOldest ==
  ASSUME back \in [Thread -> Block], next \in [Thread -> Block], notify \in [Thread -> Block],
         NEW S, NEW pos \in [Thread -> Nat], NEW m,
         ListedAt(word, Current, back, notify, next, S, pos, m), word.locked,
         NEW h, NEW o, NEW rest, NEW link1, OldestLeaves(S, h, o, rest, link1)
  PROVE  /\ o \in S /\ rest \in S \ {o}
         /\ ListedAt(word, Current, link1, [notify EXCEPT ![h] = rest], Linked(h), S \ {o}, pos, h)
  <1> DEFINE U == S \ {o}
             known1 == [notify EXCEPT ![h] = rest]
  <1> USE DEF OldestLeaves
  <1>1. Ordered(back, S, word.block, pos) /\ Above(next, S, pos, m, h) /\ h \in S /\ pos[m] <= pos[h]
    BY DEF ListedAt, Above
  <1>2. S # {} /\ S \subseteq Thread /\ Known(notify, S, pos, m) /\ Forward(next, back, S, pos, m)
    BY <1>1 DEF ListedAt, Ordered
  <1>3. /\ Forward(Linked(h), back, S, pos, h)
        /\ \A c \in S : pos[c] >= pos[h] => Linked(h)[c] = Null
    BY <1>1, <1>2, LinkedIs
  <1>4. \A c \in S : pos[c] \in Nat
    BY <1>2
  <1>5. o \in S /\ \A c \in S : pos[o] <= pos[c]
    BY <1>1, <1>2, OldestIs
  <1>6. rest \in S /\ back[rest] = o
    BY <1>3, <1>5 DEF Forward
  <1>7. pos[o] < pos[rest] /\ rest # o
    BY <1>1, <1>2, <1>4, <1>5, <1>6, NullIsNoThread DEF Ordered
  <1>8. pos[o] < pos[h] /\ h # o
    BY <1>1, <1>3, <1>4, <1>5
  <1>9. Ordered(link1, U, word.block, pos)
    BY <1>1, <1>5, <1>6, OrderedRest
  <1>10. Known(known1, U, pos, h)
    <2>1. known1[h] = rest
      BY <1>1, <1>2
    <2>2. ASSUME NEW c \in U
          PROVE  pos[rest] <= pos[c]
      <3>1. pos[o] < pos[c]
        <4>1. pos[o] # pos[c]
          BY <1>1, <1>5 DEF Ordered
        <4> QED BY <1>4, <1>5, <4>1
      <3>2. CASE pos[c] < pos[rest]
        <4>1. pos[c] <= pos[back[rest]]
          BY <1>1, <1>6, <3>2 DEF Ordered
        <4> QED BY <1>4, <1>5, <1>6, <3>1, <4>1
      <3> QED BY <1>4, <1>6, <3>2
    <2>3. ASSUME NEW c \in U, pos[c] > pos[h]
          PROVE  known1[c] = Null
      <3>1. pos[c] > pos[m] /\ c # h
        BY <1>1, <1>2, <1>4, <2>3 DEF Known
      <3> QED BY <1>2, <3>1 DEF Known
    <2> QED BY <1>1, <1>6, <1>7, <1>8, <2>1, <2>2, <2>3 DEF Known
  <1>11. ASSUME NEW c \in U
         PROVE  /\ Linked(h)[c] # Null => Linked(h)[c] \in U /\ link1[Linked(h)[c]] = c
                /\ pos[c] < pos[h] => Linked(h)[c] # Null
    <2> DEFINE y == Linked(h)[c]
    <2>1. y # Null => y \in S /\ back[y] = c
      BY <1>3 DEF Forward
    <2>2. pos[c] < pos[h] => y # Null
      BY <1>3 DEF Forward
    <2> HIDE DEF y
    <2>3. ASSUME y # Null
          PROVE  y \in U /\ link1[y] = c
      <3>1. y \in S /\ back[y] = c /\ c # Null
        BY <1>2, <2>1, <2>3, NullIsNoThread
      <3>2. y # o
        <4>1. pos[c] < pos[y]
          BY <1>1, <3>1 DEF Ordered
        <4> QED BY <1>4, <1>5, <3>1, <4>1
      <3>3. y # rest
        BY <1>6, <3>1
      <3> QED BY <3>1, <3>2, <3>3
    <2> QED BY <2>2, <2>3 DEF y
  <1>12. Forward(Linked(h), link1, U, pos, h)
    BY <1>11 DEF Forward
  <1>13. Above(Linked(h), U, pos, h, h)
    BY <1>1, <1>3, <1>4, <1>8 DEF Above
  <1> QED BY <1>5, <1>6, <1>7, <1>9, <1>10, <1>12, <1>13 DEF ListedAt

\* When the oldest leads nowhere it is the newest too, if no block has come since.
LEMMA OnlyOne ==
  ASSUME back \in [Thread -> Block], next \in [Thread -> Block], notify \in [Thread -> Block],
         NEW S, NEW pos \in [Thread -> Nat], NEW m,
         ListedAt(word, Current, back, notify, next, S, pos, m), word.locked, word = Current,
         NEW o, o = Oldest(Current.block), Linked(Current.block)[o] = Null
  PROVE  S = {o} /\ o = word.block
  <1> DEFINE h == Current.block
  <1>1. Ordered(back, S, h, pos) /\ Above(next, S, pos, m, h) /\ h \in S /\ pos[m] <= pos[h]
    BY DEF ListedAt, Above
  <1>2. S # {} /\ S \subseteq Thread /\ Known(notify, S, pos, m) /\ Forward(next, back, S, pos, m)
    BY <1>1 DEF ListedAt, Ordered
  <1>3. Forward(Linked(h), back, S, pos, h)
    BY <1>1, <1>2, LinkedIs
  <1>4. o \in S /\ \A c \in S : pos[o] <= pos[c]
    BY <1>1, <1>2, OldestIs
  <1>5. ~(pos[o] < pos[h])
    BY <1>3, <1>4 DEF Forward
  <1>6. \A c \in S : pos[c] \in Nat /\ pos[c] <= pos[h]
    BY <1>1, <1>2 DEF Ordered
  <1>7. ASSUME NEW c \in S
        PROVE  c = h
    <2>1. pos[c] = pos[h]
      BY <1>1, <1>4, <1>5, <1>6
    <2> QED BY <1>1, <2>1 DEF Ordered
  <1> QED BY <1>1, <1>4, <1>7

\* The walk of RtlpWakeSingle from the newest block h, which takes t off.
LEMMA ListedUnlink ==
  ASSUME back \in [Thread -> Block], next \in [Thread -> Block], notify \in [Thread -> Block],
         NEW S, NEW pos \in [Thread -> Nat], NEW h, Ordered(back, S, h, pos), S # {},
         NEW t \in Thread, t # h, Unlink(h, t),
         NEW w1, w1.block = h, NEW c1, c1.block = h
  PROVE  /\ back' \in [Thread -> Block] /\ next' \in [Thread -> Block] /\ notify' \in [Thread -> Block]
         /\ \A x \in Thread \ S : back'[x] = back[x] /\ next'[x] = next[x] /\ notify'[x] = notify[x]
         /\ ListedAt(w1, c1, back', notify', next', S \ {t}, pos, h)
  <1> DEFINE U == S \ {t}
             behind == [x \in Thread |-> IF x \in U /\ back[x] = t THEN back[t] ELSE back[x]]
             Way(x) == CHOOSE y \in U : behind[y] = x
             old == CHOOSE y \in U : behind[y] = Null
  <1>1. S \subseteq Thread /\ h \in S /\ h \in U /\ U \subseteq Thread /\ U # {} /\ h # Null
    BY DEF Ordered
  <1>2. Behind(h) = S
    BY <1>1, FollowOrdered DEF Behind, Block
  <1>3. back' = behind
    BY <1>2 DEF Unlink
  <1>4. next' = [x \in Thread |-> IF x = h THEN Null ELSE IF x \in U THEN Way(x) ELSE next[x]]
    BY <1>2 DEF Unlink
  <1>5. notify' = [notify EXCEPT ![h] = old]
    BY <1>2 DEF Unlink
  <1>6. Ordered(behind, U, h, pos)
    BY OrderedWithout
  <1>7. behind \in [Thread -> Block]
    OBVIOUS
  <1>8. old \in U /\ \A y \in U : behind[y] = Null => pos[y] >= pos[old]
    <2> HIDE DEF U, behind
    <2>1. old \in U /\ behind[old] = Null /\ \A y \in U : y # old => behind[y] # Null
      BY <1>1, <1>6, OrderedEnd
    <2> HIDE DEF old
    <2>2. \A y \in U : behind[y] = Null => y = old
      BY <2>1
    <2> QED BY <1>1, <2>1, <2>2
  <1>9. ASSUME NEW x \in U, x # h
        PROVE  Way(x) \in U /\ behind[Way(x)] = x /\ Way(x) # Null
    <2> HIDE DEF U, behind
    <2>1. pos[x] < pos[h]
      <3>1. pos[x] <= pos[h] /\ pos[x] # pos[h]
        BY <1>1, <1>6, <1>9 DEF Ordered
      <3>2. pos[x] \in Nat /\ pos[h] \in Nat
        BY <1>1
      <3> QED BY <3>1, <3>2
    <2>2. \E y \in U : behind[y] = x
      BY <1>1, <1>6, <2>1, Successor
    <2>3. Way(x) \in U /\ behind[Way(x)] = x
      BY <2>2
    <2> QED BY <1>1, <2>3, NullIsNoThread
  <1> HIDE DEF Way, old, behind
  <1>10. next' \in [Thread -> Block]
    <2>1. \A x \in Thread : (IF x = h THEN Null ELSE IF x \in U THEN Way(x) ELSE next[x]) \in Block
      BY <1>1, <1>9 DEF Block
    <2> HIDE DEF U
    <2> QED BY <1>4, <2>1
  <1>11. notify' \in [Thread -> Block] /\ notify'[h] = old /\ \A x \in Thread : x # h => notify'[x] = notify[x]
    BY <1>1, <1>5, <1>8 DEF Block
  <1>12. \A x \in Thread \ S : back'[x] = back[x] /\ next'[x] = next[x] /\ notify'[x] = notify[x]
    BY <1>1, <1>3, <1>4, <1>11 DEF behind
  <1>13. \A x \in U : pos[old] <= pos[x]
    <2> HIDE DEF U
    <2>1. SUFFICES ASSUME NEW x \in U, ~(pos[old] <= pos[x])
                   PROVE  FALSE
      OBVIOUS
    <2>2. pos[x] < pos[old] /\ \A y \in U : pos[y] \in Nat
      BY <1>1, <1>8, <2>1
    <2>3. behind[old] # Null /\ behind[old] \in U /\ pos[behind[old]] < pos[old] 
      BY <1>6, <1>8, <2>1, <2>2 DEF Ordered
    <2>4. behind[old] = Null
      <3>1. \E y \in U : behind[y] = Null
        BY <1>1, <1>6, Bottom
      <3> QED BY <3>1 DEF old
    <2> QED BY <2>3, <2>4
  <1>14. \A x \in U : pos[x] <= pos[h] /\ pos[x] \in Nat
    BY <1>1, <1>6 DEF Ordered
  <1>15. Known(notify', U, pos, h)
    BY <1>1, <1>8, <1>11, <1>13, <1>14 DEF Known
  <1>16. Forward(next', back', U, pos, h)
    <2>1. ASSUME NEW x \in U
          PROVE  /\ next'[x] # Null => next'[x] \in U /\ back'[next'[x]] = x
                 /\ pos[x] < pos[h] => next'[x] # Null
      <3> HIDE DEF U
      <3>1. CASE x = h
        BY <1>1, <1>4, <1>14, <3>1
      <3>2. CASE x # h
        BY <1>1, <1>3, <1>4, <1>9, <3>2
      <3> QED BY <3>1, <3>2
    <2> QED BY <2>1 DEF Forward
  <1>17. Above(next', U, pos, h, h)
    <2>1. ASSUME NEW x \in U, pos[x] >= pos[h]
          PROVE  next'[x] = Null
      <3>1. pos[x] = pos[h]
        BY <1>1, <1>14, <2>1
      <3>2. x = h
        BY <1>1, <1>6, <2>1, <3>1 DEF Ordered
      <3> QED BY <1>1, <1>4, <3>2
    <2> QED BY <1>1, <1>14, <2>1 DEF Above
  <1> QED BY <1>3, <1>6, <1>7, <1>10, <1>11, <1>12, <1>15, <1>16, <1>17 DEF ListedAt

-----------------------------------------------------------------------------
(* What each thread is doing, and who owns the list.                       *)

Words == [block : Block, locked : BOOLEAN, count : 0 .. WakeMask]
Places == {"idle", "optimize", "spin", "kernel", "single", "removeNewest", "kernelAgain", "waking", "release"}
Sleeping == {"optimize", "spin", "kernel", "single", "removeNewest", "kernelAgain"}

TypeOK ==
  /\ word \in Words /\ Current \in Words
  /\ spinning \in [Thread -> BOOLEAN]
  /\ pc \in [Thread -> Places]
  /\ call \in [Thread -> {"none", "sleep", "wake", "wakeAll"}]
  /\ then \in [Thread -> {"idle", "spin", "kernelAgain"}]

LinksOK ==
  /\ back \in [Thread -> Block] /\ notify \in [Thread -> Block] /\ next \in [Thread -> Block]
  /\ pWake \in [Thread -> Block]

LocalAt(t) ==
  /\ pc[t] = "idle" => call[t] = "none" /\ then[t] = "idle"
  /\ pc[t] \in Sleeping => call[t] = "sleep"
  /\ pc[t] \in {"waking", "release"} => call[t] # "none"
  /\ call[t] \in {"wake", "wakeAll"} => then[t] = "idle"
  /\ call[t] = "wakeAll" => pc[t] = "release"
  /\ pc[t] = "optimize" => then[t] = "spin"
  /\ pWake[t] # Null => pc[t] \in {"waking", "release"}
LocalInv == \A t \in Thread : LocalAt(t)

\* The thread that has the list locked.
Owner(t) == pc[t] \in {"optimize", "removeNewest", "waking"}

OwnerInv ==
  /\ word.block = Null => word = Empty
  /\ ~word.locked => word.count = 0 /\ \A t \in Thread : ~Owner(t)
  /\ word.locked => /\ \E t \in Thread : Owner(t)
                    /\ Current.locked /\ Current.count <= word.count
  /\ \A t, u \in Thread : Owner(t) /\ Owner(u) => t = u
  /\ \A t \in Thread : /\ pc[t] = "optimize" => Current.count = 0
                       /\ pc[t] = "removeNewest" => Current.block = t

OfThreads == TypeOK /\ LocalInv /\ OwnerInv

LEMMA WordType ==
  /\ \A b \in Block, l \in BOOLEAN, c \in 0 .. WakeMask : Word(b, l, c) \in Words
  /\ Empty \in Words
  /\ \A b \in Block : Word(b, TRUE, 0) \in Words /\ Word(b, FALSE, 0) \in Words
  BY WakeMaskPositive DEF Words, Word, Empty, Block

LEMMA WordChange ==
  ASSUME NEW w \in Words
  PROVE  /\ w.block \in Block /\ w.locked \in BOOLEAN /\ w.count \in 0 .. WakeMask
         /\ [w EXCEPT !.locked = TRUE] \in Words
         /\ [w EXCEPT !.count = WakeMask] \in Words
         /\ w.count # WakeMask => [w EXCEPT !.count = @ + 1] \in Words
  <1>1. w.block \in Block /\ w.locked \in BOOLEAN /\ w.count \in 0 .. WakeMask
    BY DEF Words
  <1>2. [w EXCEPT !.locked = TRUE] \in Words
    BY DEF Words
  <1>3. \A n \in 0 .. WakeMask : [w EXCEPT !.count = n] \in Words
    BY DEF Words
  <1>4. WakeMask \in 0 .. WakeMask /\ (w.count # WakeMask => w.count + 1 \in 0 .. WakeMask)
    BY <1>1, WakeMaskPositive
  <1> QED BY <1>1, <1>2, <1>3, <1>4

LEMMA WordsAre ==
  ASSUME TypeOK
  PROVE  /\ word.block \in Block /\ word.locked \in BOOLEAN /\ word.count \in Nat /\ word.count <= WakeMask
         /\ Current.block \in Block /\ Current.count \in Nat
  <1>1. word.count \in 0 .. WakeMask /\ Current.count \in 0 .. WakeMask /\ WakeMask \in Nat
    BY WordChange, WakeMaskPositive DEF TypeOK
  <1>2. word.block \in Block /\ word.locked \in BOOLEAN /\ Current.block \in Block
    BY WordChange DEF TypeOK
  <1> QED BY <1>1, <1>2

\* The owner has the list locked.
LEMMA OwnerLocks ==
  ASSUME OwnerInv, NEW t \in Thread, Owner(t)
  PROVE  word.locked
  BY DEF OwnerInv

LEMMA OfThreadsSleep ==
  ASSUME OfThreads, LinksOK, NEW t \in Thread, Sleep(t)
  PROVE  OfThreads'
  <1> USE DEF OfThreads
  <1>1. TypeOK'
    BY WakeMaskPositive DEF Sleep, Goto, TypeOK, Words, Word, Places, Block
  <1>2. LocalInv'
    BY DEF Sleep, Goto, TypeOK, LocalInv, LocalAt, LinksOK, Sleeping
  <1>3. OwnerInv'
    <2> DEFINE first == word.block = Null
    <2>1. word' = Word(t, word.locked \/ ~first, word.count) /\ pc[t] = "idle" /\ t # Null
      BY NullIsNoThread DEF Sleep
    <2>2. word'.block = t /\ word'.locked = (word.locked \/ ~first) /\ word'.count = word.count
      BY <2>1 DEF Word
    <2>3. first => ~word.locked /\ word.count = 0
      BY DEF OwnerInv, Empty, Word
    <2>4. CASE word'.locked = word.locked
      <3>1. Current' = Current /\ pc' = [pc EXCEPT ![t] = "spin"]
        BY <2>1, <2>2, <2>4 DEF Sleep, Goto
      <3> HIDE DEF first
      <3> QED BY <2>1, <2>2, <2>4, <3>1 DEF OwnerInv, Owner, TypeOK
    <2>5. CASE word'.locked # word.locked
      <3>1. ~word.locked /\ word'.locked
        BY <2>2, <2>3, <2>5 DEF TypeOK, Words
      <3>2. Current' = word' /\ pc' = [pc EXCEPT ![t] = "optimize"]
        BY <2>1, <2>2, <2>5 DEF Sleep, Goto
      <3>3. word.count = 0
        BY <3>1 DEF OwnerInv
      <3> HIDE DEF first
      <3> QED BY <2>1, <2>2, <3>1, <3>2, <3>3 DEF OwnerInv, Owner, TypeOK
    <2> QED BY <2>4, <2>5
  <1> QED BY <1>1, <1>2, <1>3

LEMMA OfThreadsOptimize ==
  ASSUME OfThreads, LinksOK, NEW t \in Thread, Optimize(t)
  PROVE  OfThreads'
  <1> USE DEF OfThreads
  <1>1. TypeOK'
    BY WordType, WordChange DEF Optimize, Goto, TypeOK, Places
  <1>2. LocalInv'
    <2>1. pc[t] = "optimize" /\ UNCHANGED <<call, then, pWake>>
      BY DEF Optimize
    <2>2. \E p \in {"spin", "waking", "optimize"} : pc' = [pc EXCEPT ![t] = p]
      BY DEF Optimize, Goto
    <2> QED BY <2>1, <2>2 DEF TypeOK, LocalInv, LocalAt, LinksOK, Sleeping
  <1>3. OwnerInv'
    BY NullIsNoThread DEF Optimize, Goto, TypeOK, Words, Word, Empty, OwnerInv, Owner
  <1> QED BY <1>1, <1>2, <1>3

LEMMA OfThreadsSpin ==
  ASSUME OfThreads, LinksOK, NEW t \in Thread, Spin(t)
  PROVE  OfThreads'
  <1> USE DEF OfThreads
  <1>1. TypeOK'
    BY DEF Spin, Return, Goto, TypeOK, Places
  <1>2. LocalInv'
    BY DEF Spin, Return, Goto, TypeOK, LocalInv, LocalAt, LinksOK, Sleeping
  <1>3. OwnerInv'
    BY DEF Spin, Return, Goto, TypeOK, OwnerInv, Owner
  <1> QED BY <1>1, <1>2, <1>3

LEMMA OfThreadsTimeOut ==
  ASSUME OfThreads, LinksOK, NEW t \in Thread, TimeOut(t)
  PROVE  OfThreads'
  <1> USE DEF OfThreads
  <1>1. TypeOK'
    BY DEF TimeOut, Goto, TypeOK, Places
  <1>2. LocalInv'
    BY DEF TimeOut, Goto, TypeOK, LocalInv, LocalAt, LinksOK, Sleeping
  <1>3. OwnerInv'
    BY DEF TimeOut, Goto, TypeOK, OwnerInv, Owner
  <1> QED BY <1>1, <1>2, <1>3

LEMMA OfThreadsWakeSingle ==
  ASSUME OfThreads, LinksOK, NEW t \in Thread, WakeSingle(t)
  PROVE  OfThreads'
  <1> USE DEF OfThreads
  <1>1. TypeOK'
    BY WordType, WordChange DEF WakeSingle, LeaveAfterWaking, Goto, TypeOK, Places
  <1>2. LocalInv'
    BY DEF WakeSingle, LeaveAfterWaking, Goto, TypeOK, LocalInv, LocalAt, LinksOK, Sleeping
  <1>3. OwnerInv'
    BY WakeMaskPositive DEF WakeSingle, LeaveAfterWaking, Goto, TypeOK, Words, Word, Empty, OwnerInv, Owner
  <1> QED BY <1>1, <1>2, <1>3

LEMMA OfThreadsRemoveNewest ==
  ASSUME OfThreads, LinksOK, NEW t \in Thread, RemoveNewest(t)
  PROVE  OfThreads'
  <1> USE DEF OfThreads
  <1>0. word.locked
    BY OwnerLocks DEF RemoveNewest, Owner
  <1>1. CASE word # Current
    <2>1. TypeOK'
      BY <1>1 DEF RemoveNewest, LeaveAfterWaking, Goto, TypeOK, Places
    <2>2. LocalInv'
      BY <1>1 DEF RemoveNewest, LeaveAfterWaking, Goto, TypeOK, LocalInv, LocalAt, LinksOK, Sleeping
    <2>3. OwnerInv'
      BY <1>0, <1>1 DEF RemoveNewest, LeaveAfterWaking, Goto, TypeOK, Words, OwnerInv, Owner
    <2> QED BY <2>1, <2>2, <2>3
  <1>2. CASE word = Current /\ back[t] = Null
    <2>1. TypeOK'
      BY <1>2, WordType DEF RemoveNewest, Return, TypeOK, Places
    <2>2. LocalInv'
      BY <1>2 DEF RemoveNewest, Return, TypeOK, LocalInv, LocalAt, LinksOK, Sleeping
    <2>3. OwnerInv'
      BY <1>2 DEF RemoveNewest, Return, TypeOK, Words, Word, Empty, OwnerInv, Owner
    <2> QED BY <2>1, <2>2, <2>3
  <1>3. CASE word = Current /\ back[t] # Null
    <2>1. TypeOK'
      <3>1. word' = Word(back[t], TRUE, 0) /\ Current' = word'
        BY <1>3 DEF RemoveNewest
      <3>2. word' \in Words /\ Current' \in Words
        BY <3>1, WordType DEF LinksOK
      <3> QED BY <1>3, <3>2 DEF RemoveNewest, LeaveAfterWaking, Goto, TypeOK, Places
    <2>2. LocalInv'
      BY <1>3 DEF RemoveNewest, LeaveAfterWaking, Goto, TypeOK, LocalInv, LocalAt, LinksOK, Sleeping
    <2>3. OwnerInv'
      BY <1>3 DEF RemoveNewest, LeaveAfterWaking, Goto, TypeOK, Words, Word, OwnerInv, Owner
    <2> QED BY <2>1, <2>2, <2>3
  <1> QED BY <1>1, <1>2, <1>3

LEMMA OfThreadsTakeAll ==
  ASSUME OfThreads, LinksOK, NEW t \in Thread, TakeAll(t)
  PROVE  OfThreads'
  <1> USE DEF OfThreads
  <1>1. TypeOK'
    BY WakeMaskPositive DEF TakeAll, Goto, TypeOK, Words, Word, Empty, Block, Places
  <1>2. LocalInv'
    BY DEF TakeAll, Take, Goto, TypeOK, LocalInv, LocalAt, LinksOK, Sleeping
  <1>3. OwnerInv'
    BY DEF TakeAll, Goto, TypeOK, Words, Word, Empty, OwnerInv, Owner
  <1> QED BY <1>1, <1>2, <1>3

LEMMA OfThreadsTakeOldest ==
  ASSUME OfThreads, LinksOK, NEW t \in Thread, TakeOldest(t)
  PROVE  OfThreads'
  <1> USE DEF OfThreads
  <1>1. TypeOK'
    BY DEF TakeOldest, TypeOK
  <1>2. LocalInv'
    BY DEF TakeOldest, Waking, Take, TypeOK, LocalInv, LocalAt, LinksOK, Sleeping
  <1>3. OwnerInv'
    BY DEF TakeOldest, TypeOK, OwnerInv, Owner
  <1> QED BY <1>1, <1>2, <1>3

LEMMA OfThreadsTakeLast ==
  ASSUME OfThreads, LinksOK, NEW t \in Thread, TakeLast(t)
  PROVE  OfThreads'
  <1> USE DEF OfThreads
  <1>0. word.locked
    BY OwnerLocks DEF TakeLast, Waking, Owner
  <1>1. TypeOK'
    BY WordType DEF TakeLast, Goto, TypeOK, Places
  <1>2. LocalInv'
    BY DEF TakeLast, Waking, Take, Goto, TypeOK, LocalInv, LocalAt, LinksOK, Sleeping
  <1>3. OwnerInv'
    BY <1>0 DEF TakeLast, Waking, Goto, TypeOK, Words, Word, Empty, OwnerInv, Owner
  <1> QED BY <1>1, <1>2, <1>3

LEMMA OfThreadsUnlock ==
  ASSUME OfThreads, LinksOK, NEW t \in Thread, Unlock(t)
  PROVE  OfThreads'
  <1> USE DEF OfThreads
  <1>0. word.locked
    BY OwnerLocks DEF Unlock, Waking, Owner
  <1>1. TypeOK'
    BY WordType, WordChange DEF Unlock, Goto, TypeOK, Places
  <1>2. LocalInv'
    <2>1. pc[t] = "waking" /\ UNCHANGED <<call, then, pWake>>
      BY DEF Unlock, Waking
    <2>2. UNCHANGED pc \/ pc' = [pc EXCEPT ![t] = "release"]
      BY DEF Unlock, Goto
    <2> QED BY <2>1, <2>2 DEF TypeOK, LocalInv, LocalAt, LinksOK, Sleeping
  <1>3. OwnerInv'
    BY <1>0 DEF Unlock, Waking, Goto, TypeOK, Words, Word, Empty, OwnerInv, Owner
  <1> QED BY <1>1, <1>2, <1>3

LEMMA OfThreadsRelease ==
  ASSUME OfThreads, LinksOK, NEW t \in Thread, Release(t)
  PROVE  OfThreads'
  <1> USE DEF OfThreads
  <1> DEFINE b == pWake[t]
  <1>0. b \in Thread /\ pc[t] = "release" /\ pWake' = [pWake EXCEPT ![t] = back[b]]
    BY DEF Release, LinksOK, Block
  <1>1. CASE spinning[b]
    <2>1. TypeOK'
      BY <1>1 DEF Release, TypeOK
    <2>2. LocalInv'
      BY <1>0, <1>1 DEF Release, TypeOK, LocalInv, LocalAt, LinksOK
    <2>3. OwnerInv'
      BY <1>1 DEF Release, OwnerInv, Owner
    <2> QED BY <2>1, <2>2, <2>3
  <1>2. CASE ~spinning[b]
    <2>1. pc[b] \in Asleep /\ b # t /\ Return(b) /\ UNCHANGED <<word, Current>>
      BY <1>0, <1>2 DEF Release, Asleep
    <2> HIDE DEF b
    <2>2. TypeOK'
      BY <2>1 DEF Return, TypeOK, Places
    <2>3. LocalInv'
      BY <1>0, <2>1 DEF Return, Asleep, TypeOK, LocalInv, LocalAt, LinksOK, Sleeping
    <2>4. OwnerInv'
      BY <2>1 DEF Return, Asleep, TypeOK, OwnerInv, Owner
    <2> QED BY <2>2, <2>3, <2>4
  <1> QED BY <1>1, <1>2

LEMMA OfThreadsReleased ==
  ASSUME OfThreads, LinksOK, NEW t \in Thread, Released(t)
  PROVE  OfThreads'
  <1> USE DEF OfThreads
  <1>1. TypeOK'
    BY DEF Released, Return, Stay, Goto, TypeOK, Places
  <1>2. LocalInv'
    BY DEF Released, Return, Stay, Goto, TypeOK, LocalInv, LocalAt, LinksOK, Sleeping
  <1>3. OwnerInv'
    BY DEF Released, Return, Stay, Goto, TypeOK, OwnerInv, Owner
  <1> QED BY <1>1, <1>2, <1>3

LEMMA OfThreadsWake ==
  ASSUME OfThreads, LinksOK, NEW t \in Thread, WakeConditionVariable(t) \/ WakeAllConditionVariable(t)
  PROVE  OfThreads'
  <1> USE DEF OfThreads
  <1>1. CASE WakeConditionVariable(t)
    <2>1. TypeOK'
      BY <1>1, WordType, WordChange DEF WakeConditionVariable, Goto, TypeOK, Places
    <2>2. LocalInv'
      BY <1>1 DEF WakeConditionVariable, Goto, TypeOK, LocalInv, LocalAt, LinksOK, Sleeping
    <2>3. OwnerInv'
      BY <1>1 DEF WakeConditionVariable, Goto, TypeOK, Words, Word, Empty, OwnerInv, Owner
    <2> QED BY <2>1, <2>2, <2>3
  <1>2. CASE WakeAllConditionVariable(t)
    <2>1. TypeOK'
      BY <1>2, WordType, WordChange DEF WakeAllConditionVariable, Goto, TypeOK, Places
    <2>2. LocalInv'
      BY <1>2 DEF WakeAllConditionVariable, Goto, TypeOK, LocalInv, LocalAt, LinksOK, Sleeping
    <2>3. OwnerInv'
      BY <1>2, WakeMaskPositive DEF WakeAllConditionVariable, Goto, TypeOK, Words, Word, Empty, OwnerInv, Owner
    <2> QED BY <2>1, <2>2, <2>3
  <1> QED BY <1>1, <1>2

\* Every step keeps this.
LEMMA OfThreadsStep ==
  ASSUME OfThreads, LinksOK, NEW t \in Thread, Acts(t)
  PROVE  OfThreads'
  BY OfThreadsSleep, OfThreadsOptimize, OfThreadsSpin, OfThreadsTimeOut, OfThreadsWakeSingle, OfThreadsRemoveNewest,
     OfThreadsTakeAll, OfThreadsTakeOldest, OfThreadsTakeLast, OfThreadsUnlock, OfThreadsRelease, OfThreadsReleased,
     OfThreadsWake DEF Acts, Inside

-----------------------------------------------------------------------------
(* The list and the blocks that have been taken off it.                    *)

Lists(L, pos, m) == ListedAt(word, Current, back, notify, next, L, pos, m)

\* T[t] is what t has taken and not woken yet.
Takes(T, r) == \A t \in Thread : Ordered(back, T[t], pWake[t], r)

Apart(L, T) ==
  /\ \A t \in Thread : T[t] \cap L = {}
  /\ \A t, u \in Thread : t # u => T[t] \cap T[u] = {}

\* The thread sleeps, and has not been woken.
On(b) ==
  \/ pc[b] \in {"optimize", "spin"} /\ spinning[b]
  \/ pc[b] \in {"waking", "release"} /\ call[b] = "sleep" /\ then[b] = "spin" /\ spinning[b]
  \/ pc[b] \in {"kernel", "single", "removeNewest", "kernelAgain"}
  \/ pc[b] \in {"waking", "release"} /\ call[b] = "sleep" /\ then[b] = "kernelAgain"

AllOn(L, T) ==
  /\ \A b \in L : On(b)
  /\ \A t \in Thread : \A b \in T[t] : On(b)

\* Who tidies the list or takes himself off is on it; a block is new when its thread comes.
Proper(L) ==
  \A t \in Thread :
    /\ pc[t] \in {"optimize", "removeNewest"} => t \in L
    /\ pc[t] = "idle" => next[t] = Null /\ spinning[t]

\* How many of those called for the owner has to see to, beside the count in the word.
Own(t) == IF call[t] = "wake" THEN 1 ELSE 0

Counts(T) ==
  /\ owed \in Nat /\ forgotten \in Nat
  /\ ~word.locked => owed <= forgotten
  /\ \A o \in Thread : Owner(o) =>
       /\ Cardinality(T[o]) <= Current.count + Own(o)
       /\ word.count # WakeMask => owed <= forgotten + (word.count + Own(o) - Cardinality(T[o]))

Holds(L, T, pos, r, m) ==
  /\ LinksOK /\ Lists(L, pos, m) /\ Takes(T, r) /\ Apart(L, T)
  /\ AllOn(L, T) /\ Proper(L) /\ Counts(T)

Held ==
  \E L \in SUBSET Thread, T \in [Thread -> SUBSET Thread], pos \in [Thread -> Nat], r \in [Thread -> Nat], m \in Block :
    Holds(L, T, pos, r, m)

IInv == OfThreads /\ Held

\* After the step the list is L, in the order of pos, and T[t] what t has taken.
Moved(L, T, pos) ==
  /\ L \in SUBSET Thread /\ T \in [Thread -> SUBSET Thread] /\ pos \in [Thread -> Nat]
  /\ \E r \in [Thread -> Nat], m \in Block : Holds(L, T, pos, r, m)'

\* The step has put t behind those on the list.
Arrived(L, T, pos, t) ==
  \E pos1 \in [Thread -> Nat] :
    Moved(L \cup {t}, T, pos1) /\ \A x \in L : pos1[x] = pos[x] /\ pos1[x] < pos1[t]

-----------------------------------------------------------------------------
\* What the walks of the model come by.
LEMMA ListIs ==
  ASSUME LinksOK, NEW L, NEW pos \in [Thread -> Nat], NEW m, Lists(L, pos, m)
  PROVE  List = L /\ IsFiniteSet(L) /\ Cardinality(L) \in Nat
  <1>1. List = L
    BY FollowOrdered DEF Lists, ListedAt, LinksOK, List, Behind
  <1>2. L \subseteq Thread
    BY DEF Lists, ListedAt, Ordered
  <1> QED BY <1>1, <1>2, ThreadsAssumption, FS_Subset, FS_CardinalityType

LEMMA TakenIs ==
  ASSUME LinksOK, NEW T, NEW r \in [Thread -> Nat], Takes(T, r), NEW t \in Thread
  PROVE  /\ Taken(t) = T[t] /\ Count(t) = Cardinality(T[t])
         /\ T[t] \subseteq Thread /\ IsFiniteSet(T[t]) /\ Cardinality(T[t]) \in Nat
         /\ pWake[t] = Null => T[t] = {} /\ Cardinality(T[t]) = 0
         /\ pWake[t] # Null => pWake[t] \in T[t]
  <1>1. Ordered(back, T[t], pWake[t], r)
    BY DEF Takes
  <1>2. Behind(pWake[t]) = T[t]
    BY <1>1, FollowOrdered DEF LinksOK, Behind
  <1>3. T[t] \subseteq Thread /\ (pWake[t] = Null => T[t] = {}) /\ (pWake[t] # Null => pWake[t] \in T[t])
    BY <1>1 DEF Ordered
  <1>4. IsFiniteSet(T[t]) /\ Cardinality(T[t]) \in Nat
    BY <1>3, ThreadsAssumption, FS_Subset, FS_CardinalityType
  <1> QED BY <1>2, <1>3, <1>4, FS_EmptySet DEF Taken, Count

LEMMA TakesSame ==
  ASSUME NEW T, NEW r, Takes(T, r), pWake' = pWake, \A t \in Thread : \A x \in T[t] : back'[x] = back[x]
  PROVE  Takes(T, r)'
  <1>1. ASSUME NEW t \in Thread
        PROVE  Ordered(back', T[t], pWake'[t], r)
    <2>1. Ordered(back, T[t], pWake[t], r)
      BY DEF Takes
    <2>2. pWake'[t] = pWake[t] /\ \A x \in T[t] : back'[x] = back[x]
      OBVIOUS
    <2> QED BY <2>1, <2>2, OrderedSame
  <1> QED BY <1>1 DEF Takes

LEMMA ListsSame ==
  ASSUME NEW L, NEW pos, NEW m, Lists(L, pos, m),
         word'.block = word.block, word'.locked => word.locked /\ Current'.block = Current.block,
         \A x \in L : back'[x] = back[x] /\ notify'[x] = notify[x] /\ next'[x] = next[x]
  PROVE  Lists(L, pos, m)'
  BY ListedSame DEF Lists

LEMMA ListsLock ==
  ASSUME NEW L, NEW pos \in [Thread -> Nat], NEW m, Lists(L, pos, m), word.block # Null,
         word'.block = word.block, Current'.block = word.block, UNCHANGED links
  PROVE  Lists(L, pos, m)'
  BY ListedLock DEF Lists, links

\* An order depends on the numbers of its blocks alone.
LEMMA OrderedAlike ==
  ASSUME NEW link, NEW S, NEW b, NEW pos, Ordered(link, S, b, pos),
         NEW new, NEW pos1, \A x \in S : new[x] = link[x] /\ pos1[x] = pos[x]
  PROVE  Ordered(new, S, b, pos1)
  <1>1. b # Null => b \in S
    BY DEF Ordered
  <1>2. \A x \in S : new[x] # Null => new[x] \in S /\ pos1[new[x]] < pos1[x]
    BY DEF Ordered
  <1>3. \A x, c \in S : pos1[c] < pos1[x] => new[x] # Null /\ pos1[c] <= pos1[new[x]]
    <2>1. ASSUME NEW x \in S, NEW c \in S, pos1[c] < pos1[x]
          PROVE  new[x] # Null /\ pos1[c] <= pos1[new[x]]
      <3>1. link[x] # Null /\ pos[c] <= pos[link[x]]
        BY <2>1 DEF Ordered
      <3>2. link[x] \in S
        BY <3>1 DEF Ordered
      <3> QED BY <3>1, <3>2
    <2> QED BY <2>1
  <1>4. \A x, c \in S : pos1[c] = pos1[x] => c = x
    BY DEF Ordered
  <1> QED BY <1>1, <1>2, <1>3, <1>4 DEF Ordered

\* X, whose newest is h and which "old" links, comes to what t has taken.
Appends(T, r, X, pos, h, old, t) ==
  /\ Takes(T, r) /\ Apart(X, T) /\ Ordered(old, X, h, pos)
  /\ \A u \in Thread : \A x \in T[u] : old[x] = back[x]
  /\ back' = Appended(old, t, h) /\ Take(t, h)

\* What t takes comes behind what it has taken.
LEMMA AppendedIs ==
  ASSUME LinksOK, NEW T \in [Thread -> SUBSET Thread], NEW r \in [Thread -> Nat], NEW X \in SUBSET Thread,
         NEW pos \in [Thread -> Nat], NEW h \in Thread, NEW old \in [Thread -> Block], NEW t \in Thread,
         Appends(T, r, X, pos, h, old, t)
  PROVE  /\ back' \in [Thread -> Block] /\ pWake' \in [Thread -> Block]
         /\ \A x \in Thread \ T[t] : back'[x] = old[x]
         /\ \E r1 \in [Thread -> Nat] : Takes([T EXCEPT ![t] = T[t] \cup X], r1)'
  <1>0. /\ Takes(T, r) /\ Apart(X, T) /\ Ordered(old, X, h, pos)
        /\ \A u \in Thread : \A x \in T[u] : old[x] = back[x]
        /\ back' = Appended(old, t, h) /\ Take(t, h)
    BY DEF Appends
  <1>a. PICK link : link = back'
    BY <1>0
  <1>b. PICK first : first = pWake'
    BY <1>0
  <1>c. PICK T1 : T1 = [T EXCEPT ![t] = T[t] \cup X]
    BY <1>0
  <1>d. /\ link = Appended(old, t, h)
        /\ first = [pWake EXCEPT ![t] = IF @ = Null THEN h ELSE @]
    BY <1>0, <1>a, <1>b DEF Take
  <1> DEFINE e == CHOOSE x \in T[t] : back[x] = Null
             S == T[t]
             r1 == [y \in Thread |-> IF y \in S THEN r[y] + pos[h] + 1 ELSE IF y \in X THEN pos[y] ELSE r[y]]
  <1>1. h # Null /\ h \in X /\ S \subseteq Thread /\ S \cap X = {}
    BY <1>0, NullIsNoThread DEF Ordered, Apart
  <1>2. Ordered(back, S, pWake[t], r) /\ Ordered(old, S, pWake[t], r)
    <2>1. Ordered(back, S, pWake[t], r)
      BY <1>0 DEF Takes
    <2>2. \A x \in S : old[x] = back[x]
      BY <1>0
    <2> HIDE DEF S
    <2> QED BY <1>0, <2>1, <2>2, OrderedSame
  <1>3. r1 \in [Thread -> Nat]
    BY <1>0
  <1>4. Behind(pWake[t]) = S
    BY <1>0, TakenIs DEF Taken
  <1>5. first \in [Thread -> Block] /\ (first[t] = IF pWake[t] = Null THEN h ELSE pWake[t])
        /\ \A u \in Thread : u # t => first[u] = pWake[u]
    BY <1>0, <1>d DEF LinksOK, Block
  <1>6. T1[t] = S \cup X /\ \A u \in Thread : u # t => T1[u] = T[u]
    BY <1>0, <1>c
  <1>7. /\ link \in [Thread -> Block]
        /\ \A x \in Thread \ S : link[x] = old[x]
        /\ Ordered(link, S \cup X, first[t], r1)
    <2>1. CASE pWake[t] = Null
      <3>1. link = old /\ S = {} /\ first[t] = h
        BY <1>0, <1>d, <1>2, <1>5, <2>1 DEF Appended, Ordered
      <3>2. \A x \in X : r1[x] = pos[x]
        BY <1>0, <3>1
      <3> HIDE DEF r1, S
      <3>3. Ordered(link, X, h, r1)
        BY <1>0, <3>1, <3>2, OrderedAlike
      <3>4. S \cup X = X
        BY <1>0, <3>1
      <3> QED BY <1>0, <3>1, <3>3, <3>4
    <2>2. CASE pWake[t] # Null
      <3>1. S # {} /\ first[t] = pWake[t]
        BY <1>0, <1>2, <1>5, <2>2 DEF Ordered
      <3>2. e \in S /\ back[e] = Null /\ \A y \in S : y # e => back[y] # Null
        <4> HIDE DEF S, e
        <4>1. e = CHOOSE x \in S : back[x] = Null
          BY <1>0 DEF e, S
        <4> QED BY <1>0, <1>2, <3>1, <4>1, OrderedEnd
      <3>3. link = [old EXCEPT ![e] = h]
        BY <1>0, <1>d, <1>4, <2>2 DEF Appended
      <3>4. e \in Thread /\ e \notin X
        BY <1>0, <1>1, <3>2
      <3> HIDE DEF e
      <3>5. link \in [Thread -> Block] /\ \A x \in Thread \ S : link[x] = old[x]
        BY <1>0, <3>2, <3>3, <3>4 DEF Block
      <3>6. link[e] = h /\ old[e] = Null /\ (\A y \in S : y # e => link[y] = old[y] /\ old[y] # Null)
            /\ \A y \in X : link[y] = old[y]
        BY <1>0, <1>1, <3>2, <3>3, <3>4
      <3>7. (\A y \in S : r1[y] = r[y] + pos[h] + 1) /\ (\A y \in X : r1[y] = pos[y])
        BY <1>0, <1>1
      <3> HIDE DEF r1, S
      <3> DEFINE b == pWake[t]
      <3>8. Ordered(old, S, b, r) /\ b # Null
        BY <1>0, <1>2, <2>2
      <3>9. JoinedLinks(old, link, S, e, X, h) /\ JoinedNumbers(r, pos, r1, S, X, h)
        BY <1>0, <3>2, <3>6, <3>7 DEF JoinedLinks, JoinedNumbers
      <3> HIDE DEF b
      <3>11. Ordered(link, S \cup X, b, r1)
        BY <1>0, <1>1, <3>8, <3>9, OrderedJoin
      <3>12. Ordered(link, S \cup X, pWake[t], r1)
        BY <1>0, <3>11 DEF b
      <3> QED BY <1>0, <3>1, <3>5, <3>12
    <2> QED BY <1>0, <2>1, <2>2
  <1>8. ASSUME NEW u \in Thread, u # t
        PROVE  Ordered(link, T1[u], first[u], r1)
    <2>1. Ordered(back, T[u], pWake[u], r)
      BY <1>0 DEF Takes
    <2>2. T[u] \cap S = {} /\ T[u] \cap X = {} /\ T[u] \subseteq Thread
      BY <1>0, <1>8 DEF Apart
    <2>3. \A x \in T[u] : link[x] = back[x] /\ r1[x] = r[x]
      <3>1. \A x \in T[u] : link[x] = back[x]
        BY <1>0, <1>7, <2>2
      <3> QED BY <1>0, <2>2, <3>1
    <2>4. T1[u] = T[u] /\ first[u] = pWake[u]
      BY <1>0, <1>5, <1>6, <1>8
    <2> HIDE DEF r1, S
    <2>5. Ordered(link, T[u], pWake[u], r1)
      BY <1>0, <2>1, <2>3, OrderedAlike
    <2> QED BY <1>0, <2>4, <2>5
  <1>9. \A u \in Thread : Ordered(link, T1[u], first[u], r1)
    <2> HIDE DEF r1, S
    <2> QED BY <1>0, <1>6, <1>7, <1>8
  <1>10. Takes(T1, r1)'
    <2> HIDE DEF r1
    <2> QED BY <1>0, <1>a, <1>b, <1>9 DEF Takes
  <1> QED BY <1>0, <1>a, <1>b, <1>c, <1>3, <1>5, <1>7, <1>10

\* A thread of which nothing changes is on as before.
LEMMA OnSame ==
  ASSUME NEW b, On(b), pc'[b] = pc[b], call'[b] = call[b], then'[b] = then[b], spinning'[b] = spinning[b]
  PROVE  On(b)'
  BY DEF On

\* So many of n are owed as have been called for, or fewer.
LEMMA OweIs ==
  ASSUME NEW m \in Int, NEW n \in Nat, forgotten \in Nat, Owe(m, n)
  PROVE  /\ owed' \in Nat /\ forgotten' \in Nat /\ owed' <= n
         /\ m <= forgotten => owed' <= forgotten'
         /\ \A k \in Nat : m <= forgotten + k => owed' <= forgotten' + k
  BY DEF Owe, Least

-----------------------------------------------------------------------------
(* Steps of threads that do not touch the list.                            *)

\* Who is not on is nowhere.
LEMMA NotOn ==
  ASSUME NEW L, NEW T, AllOn(L, T), NEW b, ~On(b)
  PROVE  b \notin L /\ \A t \in Thread : b \notin T[t]
  BY DEF AllOn

LEMMA AllOnSame ==
  ASSUME NEW L \in SUBSET Thread, NEW T \in [Thread -> SUBSET Thread], AllOn(L, T), \A x \in Thread : On(x) => On(x)'
  PROVE  AllOn(L, T)'
  BY DEF AllOn

LEMMA CountsSame ==
  ASSUME NEW T, Counts(T), UNCHANGED <<word, Current, ghosts>>,
         \A o \in Thread : Owner(o)' => Owner(o) /\ call'[o] = call[o]
  PROVE  Counts(T)'
  BY DEF Counts, ghosts, Own

LEMMA ReturnIs ==
  ASSUME TypeOK, LinksOK, NEW b \in Thread, Return(b)
  PROVE  /\ back' \in [Thread -> Block] /\ notify' \in [Thread -> Block] /\ next' \in [Thread -> Block]
         /\ \A x \in Thread : x # b =>
              /\ back'[x] = back[x] /\ notify'[x] = notify[x] /\ next'[x] = next[x]
              /\ pc'[x] = pc[x] /\ call'[x] = call[x] /\ then'[x] = then[x] /\ spinning'[x] = spinning[x]
         /\ pc'[b] = "idle" /\ next'[b] = Null /\ spinning'[b]
  BY DEF Return, TypeOK, LinksOK, Block

\* A thread returns whose block is nowhere.
LEMMA HoldsReturn ==
  ASSUME OfThreads, NEW L \in SUBSET Thread, NEW T \in [Thread -> SUBSET Thread],
         NEW pos \in [Thread -> Nat], NEW r \in [Thread -> Nat], NEW m, Holds(L, T, pos, r, m),
         NEW b \in Thread, ~On(b), Return(b), UNCHANGED <<word, Current, pWake, ghosts>>
  PROVE  Holds(L, T, pos, r, m)'
  <1> USE DEF Holds
  <1>1. b \notin L /\ \A t \in Thread : b \notin T[t]
    BY NotOn
  <1>2. TypeOK /\ LinksOK
    BY DEF OfThreads
  <1>3. LinksOK'
    BY <1>2, ReturnIs DEF LinksOK
  <1>4. Lists(L, pos, m)'
    BY <1>1, <1>2, ReturnIs, ListsSame
  <1>5. Takes(T, r)'
    BY <1>1, <1>2, ReturnIs, TakesSame
  <1>6. AllOn(L, T)'
    <2>1. \A x \in Thread : On(x) => On(x)'
      BY <1>2, ReturnIs DEF On
    <2> QED BY <2>1, AllOnSame
  <1>7. Proper(L)'
    BY <1>2, ReturnIs DEF Proper
  <1>8. Counts(T)'
    BY <1>2, ReturnIs, CountsSame DEF Owner
  <1>9. Apart(L, T)'
    BY DEF Apart
  <1> QED BY <1>3, <1>4, <1>5, <1>6, <1>7, <1>8, <1>9

LEMMA HoldsSpin ==
  ASSUME OfThreads, NEW L \in SUBSET Thread, NEW T \in [Thread -> SUBSET Thread],
         NEW pos \in [Thread -> Nat], NEW r \in [Thread -> Nat], NEW m, Holds(L, T, pos, r, m),
         NEW t \in Thread, Spin(t)
  PROVE  Holds(L, T, pos, r, m)'
  <1>1. CASE spinning[t]
    <2> USE DEF Holds
    <2>1. UNCHANGED <<links, word, Current, pWake, ghosts, call, then>> /\ pc[t] = "spin"
      BY <1>1 DEF Spin
    <2>2. \A x \in Thread : x # t => pc'[x] = pc[x] /\ spinning'[x] = spinning[x]
      BY <1>1 DEF Spin, Goto, OfThreads, TypeOK
    <2>3. pc'[t] = "kernel"
      BY <1>1 DEF Spin, Goto, OfThreads, TypeOK
    <2>4. LinksOK'
      BY <2>1 DEF LinksOK, links
    <2>5. Lists(L, pos, m)'
      BY <2>1, ListsSame DEF links
    <2>6. Takes(T, r)'
      BY <2>1, TakesSame DEF links
    <2>7. AllOn(L, T)'
      <3>1. \A x \in Thread : On(x) => On(x)'
        BY <2>1, <2>2, <2>3 DEF On
      <3> QED BY <3>1, AllOnSame
    <2>8. Proper(L)'
      BY <2>1, <2>2, <2>3 DEF Proper, links
    <2>9. Counts(T)'
      BY <2>1, <2>2, <2>3, CountsSame DEF Owner
    <2>10. Apart(L, T)'
      BY DEF Apart
    <2> QED BY <2>4, <2>5, <2>6, <2>7, <2>8, <2>9, <2>10
  <1>2. CASE ~spinning[t]
    <2>1. ~On(t)
      BY <1>2 DEF Spin, On
    <2>2. Return(t) /\ UNCHANGED <<word, Current, pWake, ghosts>>
      BY <1>2 DEF Spin
    <2> QED BY <2>1, <2>2, HoldsReturn
  <1> QED BY <1>1, <1>2

LEMMA HoldsTimeOut ==
  ASSUME OfThreads, NEW L \in SUBSET Thread, NEW T \in [Thread -> SUBSET Thread],
         NEW pos \in [Thread -> Nat], NEW r \in [Thread -> Nat], NEW m, Holds(L, T, pos, r, m),
         NEW t \in Thread, TimeOut(t)
  PROVE  Holds(L, T, pos, r, m)'
  <1> USE DEF Holds
  <1>1. UNCHANGED <<links, word, Current, pWake, ghosts, call, then, spinning>> /\ pc[t] = "kernel"
    BY DEF TimeOut
  <1>2. pc'[t] = "single" /\ \A x \in Thread : x # t => pc'[x] = pc[x]
    BY DEF TimeOut, Goto, OfThreads, TypeOK
  <1>4. LinksOK'
    BY <1>1 DEF LinksOK, links
  <1>5. Lists(L, pos, m)'
    BY <1>1, ListsSame DEF links
  <1>6. Takes(T, r)'
    BY <1>1, TakesSame DEF links
  <1>7. AllOn(L, T)'
    <2>1. \A x \in Thread : On(x) => On(x)'
      BY <1>1, <1>2 DEF On
    <2> QED BY <2>1, AllOnSame
  <1>8. Proper(L)'
    BY <1>1, <1>2 DEF Proper, links
  <1>9. Counts(T)'
    BY <1>1, <1>2, CountsSame DEF Owner
  <1>10. Apart(L, T)'
    BY DEF Apart
  <1> QED BY <1>4, <1>5, <1>6, <1>7, <1>8, <1>9, <1>10

LEMMA HoldsReleased ==
  ASSUME OfThreads, NEW L \in SUBSET Thread, NEW T \in [Thread -> SUBSET Thread],
         NEW pos \in [Thread -> Nat], NEW r \in [Thread -> Nat], NEW m, Holds(L, T, pos, r, m),
         NEW t \in Thread, Released(t)
  PROVE  Holds(L, T, pos, r, m)'
  <1>1. CASE then[t] # "idle"
    <2> USE DEF Holds
    <2>1. UNCHANGED <<links, word, Current, pWake, ghosts, call, then, spinning>> /\ pc[t] = "release"
      BY <1>1 DEF Released, Stay
    <2>2. pc'[t] = then[t] /\ \A x \in Thread : x # t => pc'[x] = pc[x]
      BY <1>1 DEF Released, Goto, OfThreads, TypeOK
    <2>3. then[t] \in {"spin", "kernelAgain"}
      BY <1>1 DEF OfThreads, TypeOK
    <2>4. LinksOK'
      BY <2>1 DEF LinksOK, links
    <2>5. Lists(L, pos, m)'
      BY <2>1, ListsSame DEF links
    <2>6. Takes(T, r)'
      BY <2>1, TakesSame DEF links
    <2>7. AllOn(L, T)'
      <3>1. \A x \in Thread : On(x) => On(x)'
        BY <2>1, <2>2, <2>3 DEF On
      <3> QED BY <3>1, AllOnSame
    <2>8. Proper(L)'
      BY <2>1, <2>2, <2>3 DEF Proper, links
    <2>9. Counts(T)'
      BY <2>1, <2>2, <2>3, CountsSame DEF Owner
    <2>10. Apart(L, T)'
      BY DEF Apart
    <2> QED BY <2>4, <2>5, <2>6, <2>7, <2>8, <2>9, <2>10
  <1>2. CASE then[t] = "idle"
    <2>1. ~On(t)
      BY <1>2 DEF Released, On
    <2>2. Return(t) /\ UNCHANGED <<word, Current, pWake, ghosts>>
      BY <1>2 DEF Released
    <2> QED BY <2>1, <2>2, HoldsReturn
  <1> QED BY <1>1, <1>2

\* The block that is woken is no longer with its waker.
LEMMA HoldsRelease ==
  ASSUME OfThreads, NEW L \in SUBSET Thread, NEW T \in [Thread -> SUBSET Thread],
         NEW pos \in [Thread -> Nat], NEW r \in [Thread -> Nat], NEW m, Holds(L, T, pos, r, m),
         NEW t \in Thread, Release(t),
         NEW T1, T1 = [T EXCEPT ![t] = T[t] \ {pWake[t]}]
  PROVE  Holds(L, T1, pos, r, m)'
  <1> USE DEF Holds
  <1> DEFINE b == pWake[t]
  <1>1. /\ b \in T[t] /\ b \in Thread /\ b # Null /\ b \notin L
        /\ \A u \in Thread : u # t => b \notin T[u]
    BY NullIsNoThread, TakenIs DEF Release, Apart
  <1>2. pWake' = [pWake EXCEPT ![t] = back[b]] /\ UNCHANGED <<word, Current, ghosts>> /\ pc[t] = "release"
    BY DEF Release
  <1>3. \A u \in Thread : b \notin T1[u] /\ T1[u] \subseteq T[u]
    BY <1>1
  <1>a. T1 \in [Thread -> SUBSET Thread] /\ T1[t] = T[t] \ {b} /\ \A u \in Thread : u # t => T1[u] = T[u]
    OBVIOUS
  <1>4. TypeOK /\ LinksOK
    BY DEF OfThreads
  \* Only b changes.
  <1>5. /\ back' \in [Thread -> Block] /\ notify' \in [Thread -> Block] /\ next' \in [Thread -> Block]
        /\ \A x \in Thread : x # b =>
              /\ back'[x] = back[x] /\ notify'[x] = notify[x] /\ next'[x] = next[x]
              /\ pc'[x] = pc[x] /\ call'[x] = call[x] /\ then'[x] = then[x] /\ spinning'[x] = spinning[x]
        /\ (pc'[b] = "idle" /\ next'[b] = Null /\ spinning'[b]) \/ (pc'[b] = pc[b] /\ call'[b] = call[b])
    <2>1. CASE spinning[b]
      <3>1. spinning' = [spinning EXCEPT ![b] = FALSE] /\ UNCHANGED <<pc, links, call, then>>
        BY <2>1 DEF Release
      <3> HIDE DEF b
      <3> QED BY <1>1, <1>4, <3>1 DEF links, LinksOK, TypeOK
    <2>2. CASE ~spinning[b]
      <3>1. Return(b)
        BY <2>2 DEF Release
      <3> HIDE DEF b
      <3> QED BY <1>1, <1>4, <3>1, ReturnIs
    <2> QED BY <2>1, <2>2
  <1>6. LinksOK'
    BY <1>1, <1>2, <1>4, <1>5 DEF LinksOK
  <1>7. Lists(L, pos, m)'
    BY <1>1, <1>2, <1>5, ListsSame
  <1>8. Takes(T1, r)'
    <2>1. ASSUME NEW u \in Thread, u # t
          PROVE  Ordered(back', T1[u], pWake'[u], r)
      <3>1. Ordered(back, T[u], pWake[u], r)
        BY DEF Takes
      <3>2. pWake'[u] = pWake[u] /\ T1[u] = T[u] /\ \A x \in T[u] : back'[x] = back[x]
        BY <1>1, <1>2, <1>4, <1>5, <1>a, <2>1 DEF LinksOK
      <3> QED BY <3>1, <3>2, OrderedSame
    <2>2. Ordered(back', T1[t], pWake'[t], r)
      <3>1. Ordered(back, T[t], b, r)
        BY DEF Takes
      <3> DEFINE S == T[t]
      <3>2. Ordered(back, S \ {b}, back[b], r)
        <4>1. back \in [Thread -> Block] /\ b # Null /\ Ordered(back, S, b, r)
          BY <1>1, <1>4, <3>1 DEF LinksOK
        <4> HIDE DEF b, S
        <4> QED BY <4>1, OrderedPop
      <3>3. pWake'[t] = back[b] /\ T1[t] = S \ {b} /\ \A x \in S \ {b} : back'[x] = back[x]
        BY <1>1, <1>2, <1>4, <1>5, <1>a DEF LinksOK
      <3> QED BY <3>2, <3>3, OrderedSame
    <2> QED BY <2>1, <2>2 DEF Takes
  <1>9. Apart(L, T1)'
    BY <1>3 DEF Apart
  <1>10. AllOn(L, T1)'
    <2>1. \A x \in Thread : x # b => (On(x) => On(x)')
      BY <1>5, OnSame
    <2>2. \A x \in L : x # b /\ x \in Thread /\ On(x)
      BY <1>1 DEF AllOn
    <2>3. \A u \in Thread : \A x \in T1[u] : x # b /\ x \in Thread /\ On(x)
      BY <1>3 DEF AllOn
    <2> HIDE DEF b
    <2> QED BY <2>1, <2>2, <2>3 DEF AllOn
  <1>11. Proper(L)'
    <2>1. On(b)
      BY <1>1 DEF AllOn
    <2>2. pc[b] # "idle" /\ pc[b] \notin {"optimize", "removeNewest"}
      BY <1>1, <2>1 DEF On, Proper
    <2> HIDE DEF b
    <2> QED BY <1>5, <2>2 DEF Proper
  <1>12. Counts(T1)'
    <2>1. \A o \in Thread : Owner(o)' => Owner(o) /\ call'[o] = call[o]
      BY <1>5 DEF Owner
    <2>2. Counts(T)'
      BY <1>2, <2>1, CountsSame
    <2>3. ASSUME NEW o \in Thread, Owner(o)'
          PROVE  T1[o] = T[o]
      BY <1>2, <1>a, <2>1, <2>3 DEF Owner
    <2> QED BY <2>2, <2>3 DEF Counts
  <1> QED BY <1>6, <1>7, <1>8, <1>9, <1>10, <1>11, <1>12

-----------------------------------------------------------------------------
(* The sleeper that queues its block, and the callers of the wake-ups.     *)

LEMMA HeldSleep ==
  ASSUME OfThreads, NEW L \in SUBSET Thread, NEW T \in [Thread -> SUBSET Thread],
         NEW pos \in [Thread -> Nat], NEW r \in [Thread -> Nat], NEW m \in Block, Holds(L, T, pos, r, m),
         NEW t \in Thread, Sleep(t)
  PROVE  Arrived(L, T, pos, t)
  <1> USE DEF Holds
  <1>a. PICK n : n = IF word.block = Null THEN 0 ELSE pos[word.block] + 1
    OBVIOUS
  <1>b. PICK m1 : m1 = IF word.block = Null THEN t ELSE m
    OBVIOUS
  <1> DEFINE L1 == L \cup {t}
             pos1 == [pos EXCEPT ![t] = n]
  <1>1. /\ pc[t] = "idle" /\ t # Null /\ t \notin L /\ (\A u \in Thread : t \notin T[u])
        /\ next[t] = Null /\ spinning[t]
    <2>1. pc[t] = "idle" /\ ~On(t)
      BY DEF Sleep, On
    <2> QED BY <2>1, NotOn, NullIsNoThread DEF Proper
  <1>2. /\ back' = [back EXCEPT ![t] = word.block]
        /\ notify' = [notify EXCEPT ![t] = IF word.block = Null THEN t ELSE Null]
        /\ UNCHANGED <<next, spinning, pWake, ghosts>>
    BY DEF Sleep
  <1>3. LinksOK'
    <2>1. word.block \in Block
      BY WordsAre DEF OfThreads
    <2> QED BY <1>2, <2>1 DEF LinksOK, Block
  <1>4. Ordered(back, L, word.block, pos) /\ (word.block = Null <=> L = {}) /\ (word.block # Null => word.block \in L)
    BY DEF Lists, ListedAt, Ordered
  <1>5. n \in Nat /\ \A x \in L : pos[x] < n
    <2>1. \A x \in L : pos[x] \in Nat /\ (word.block # Null => pos[x] <= pos[word.block])
      BY <1>4 DEF Ordered
    <2> QED BY <1>a, <1>4, <2>1
  <1>6. /\ word'.block = t /\ word'.count = word.count
        /\ word'.locked = (word.locked \/ word.block # Null)
    BY DEF Sleep, Word
  <1>7. word'.locked # word.locked \/ word'.locked = word.locked
    OBVIOUS
  <1>8. \/ word'.locked = word.locked /\ Current' = Current /\ pc' = [pc EXCEPT ![t] = "spin"]
        \/ word'.locked # word.locked /\ Current' = word' /\ pc' = [pc EXCEPT ![t] = "optimize"]
    BY DEF Sleep, Goto, Word
  <1>9. word.locked \in BOOLEAN
    BY WordsAre DEF OfThreads
  <1>10. word'.locked => L # {} /\ (Current'.block = t \/ (word.locked /\ Current'.block = Current.block))
    <2>1. word.locked => word.block # Null
      BY DEF OfThreads, OwnerInv, Empty, Word
    <2> QED BY <1>4, <1>6, <1>8, <1>9, <2>1
  <1>11. Lists(L1, pos1, m1)'
    <2>1. back \in [Thread -> Block] /\ notify \in [Thread -> Block] /\ next \in [Thread -> Block]
      BY DEF LinksOK
    <2>2. ListedAt(word, Current, back, notify, next, L, pos, m)
      BY DEF Lists
    <2>3. PushedWord(word, Current, L, t, word', Current') /\ PushedLinks(back, notify, word, t, m, back', notify', m1)
      BY <1>b, <1>2, <1>6, <1>10 DEF PushedWord, PushedLinks
    <2>4. ListedAt(word', Current', back', notify', next, L1, pos1, m1)
      BY <1>1, <1>5, <2>1, <2>2, <2>3, ListedPush
    <2> QED BY <1>2, <2>4 DEF Lists
  <1>12. Takes(T, r)'
    BY <1>1, <1>2, TakesSame DEF LinksOK
  <1>13. Apart(L1, T)'
    BY <1>1 DEF Apart
  <1>14. /\ \A x \in Thread : x # t => pc'[x] = pc[x] /\ call'[x] = call[x] /\ then'[x] = then[x]
         /\ pc'[t] \in {"spin", "optimize"} /\ call'[t] = "sleep"
    BY <1>8 DEF Sleep, OfThreads, TypeOK
  <1>15. AllOn(L1, T)'
    <2>1. \A x \in Thread : x # t => (On(x) => On(x)')
      BY <1>2, <1>14, OnSame
    <2>2. On(t)'
      BY <1>1, <1>2, <1>14 DEF On
    <2> QED BY <1>1, <2>1, <2>2 DEF AllOn
  <1>16. Proper(L1)'
    BY <1>2, <1>14 DEF Proper
  <1>17. Counts(T)'
    <2>1. T[t] = {} /\ Cardinality(T[t]) = 0
      <3>1. pWake[t] = Null
        BY <1>1 DEF OfThreads, LocalInv, LocalAt
      <3> QED BY <3>1, TakenIs
    <2>2. CASE word'.locked = word.locked /\ Current' = Current /\ pc' = [pc EXCEPT ![t] = "spin"]
      <3>1. \A o \in Thread : Owner(o)' => Owner(o) /\ call'[o] = call[o]
        BY <1>14, <2>2 DEF Owner, OfThreads, TypeOK
      <3> QED BY <1>2, <1>6, <2>2, <3>1 DEF Counts, ghosts, Own
    <2>3. CASE word'.locked # word.locked /\ Current' = word' /\ pc' = [pc EXCEPT ![t] = "optimize"]
      <3>1. ~word.locked /\ word'.locked
        BY <1>6, <1>9, <2>3
      <3>2. word.count = 0 /\ owed <= forgotten /\ \A o \in Thread : ~Owner(o)
        BY <3>1 DEF OfThreads, OwnerInv, Counts
      <3>3. \A o \in Thread : Owner(o)' => o = t
        BY <1>14, <3>2 DEF Owner
      <3>4. Own(t)' = 0
        BY <1>14 DEF Own
      <3>5. Cardinality(T[t]) <= Current'.count + Own(t)'
        BY <1>6, <2>1, <2>3, <3>2, <3>4
      <3>6. owed' <= forgotten' + (word'.count + Own(t)' - Cardinality(T[t]))
        BY <1>2, <1>6, <2>1, <3>2, <3>4 DEF ghosts, Counts
      <3> QED BY <1>2, <3>1, <3>3, <3>5, <3>6 DEF Counts, ghosts
    <2> QED BY <1>8, <2>2, <2>3
  <1>18. L1 \in SUBSET Thread /\ pos1 \in [Thread -> Nat] /\ m1 \in Block
    BY <1>b, <1>5 DEF Block
  <1>19. Holds(L1, T, pos1, r, m1)'
    <2> HIDE DEF L1, pos1
    <2> QED BY <1>3, <1>11, <1>12, <1>13, <1>15, <1>16, <1>17
  <1>20. \A x \in L : pos1[x] = pos[x] /\ pos1[x] < pos1[t]
    BY <1>1, <1>5
  <1> HIDE DEF pos1, Holds
  <1> QED BY <1>18, <1>19, <1>20 DEF Moved, Arrived

\* The word counts one more, or the list is locked for the wake-up.
LEMMA HoldsWake ==
  ASSUME OfThreads, NEW L \in SUBSET Thread, NEW T \in [Thread -> SUBSET Thread],
         NEW pos \in [Thread -> Nat], NEW r \in [Thread -> Nat], NEW m, Holds(L, T, pos, r, m),
         NEW t \in Thread, WakeConditionVariable(t)
  PROVE  Holds(L, T, pos, r, m)'
  <1> USE DEF Holds
  <1>1. UNCHANGED <<links, spinning, then, pWake>> /\ pc[t] = "idle" /\ word.block # Null /\ word.count # WakeMask
    BY DEF WakeConditionVariable
  <1>2. ~On(t) /\ t \notin L
    BY <1>1, NotOn DEF On
  <1>3. LinksOK'
    BY <1>1 DEF LinksOK, links
  <1>4. Takes(T, r)'
    BY <1>1, TakesSame DEF links
  <1>5. Apart(L, T)'
    BY DEF Apart
  <1>6. word.count \in Nat /\ word.locked \in BOOLEAN /\ Current.count \in Nat
    BY WordsAre DEF OfThreads
  <1>7. /\ owed' \in Nat /\ forgotten' \in Nat
        /\ \A k \in Nat : owed + 1 <= forgotten + k => owed' <= forgotten' + k
    <2>1. Owe(owed + 1, Cardinality(List)) /\ owed \in Nat /\ forgotten \in Nat
      BY DEF WakeConditionVariable, Counts
    <2>2. Cardinality(List) \in Nat /\ owed + 1 \in Int
      <3>1. Cardinality(List) \in Nat
        <4> HIDE DEF Holds
        <4>1. LinksOK /\ Lists(L, pos, m)
          BY DEF Holds
        <4> QED BY <4>1, ListIs
      <3> QED BY <2>1, <3>1
    <2> HIDE DEF Holds
    <2> QED BY <2>1, <2>2, OweIs
  <1>8. \A o \in Thread : Cardinality(T[o]) \in Nat /\ Own(o) \in {0, 1}
    BY TakenIs DEF Own
  <1>9. CASE word.locked
    <2>1. word'.block = word.block /\ word'.locked /\ word'.count = word.count + 1 /\ UNCHANGED <<pc, call, Current>>
      BY <1>6, <1>9, WordChange DEF WakeConditionVariable, OfThreads, TypeOK, Words
    <2>2. Lists(L, pos, m)'
      BY <1>1, <1>9, <2>1, ListsSame DEF links
    <2>3. AllOn(L, T)'
      <3>1. \A x \in Thread : On(x) => On(x)'
        BY <1>1, <2>1 DEF On
      <3> QED BY <3>1, AllOnSame
    <2>4. Proper(L)'
      BY <1>1, <2>1 DEF Proper, links
    <2>5. Counts(T)'
      <3>1. ASSUME NEW o \in Thread, Owner(o)'
            PROVE  /\ Cardinality(T[o]) <= Current'.count + Own(o)'
                   /\ owed' <= forgotten' + (word'.count + Own(o)' - Cardinality(T[o]))
        <4>1. Owner(o) /\ Own(o)' = Own(o)
          BY <2>1, <3>1 DEF Owner, Own
        <4>2. /\ Cardinality(T[o]) <= Current.count + Own(o)
              /\ owed <= forgotten + (word.count + Own(o) - Cardinality(T[o]))
              /\ Current.count <= word.count /\ owed \in Nat /\ forgotten \in Nat
          BY <1>1, <1>9, <4>1 DEF Counts, OfThreads, OwnerInv
        <4> DEFINE k == word.count + 1 + Own(o) - Cardinality(T[o])
        <4>3. k \in Nat /\ owed + 1 <= forgotten + k
          BY <1>6, <1>8, <4>2
        <4>4. owed' <= forgotten' + k
          BY <1>7, <4>3
        <4> QED BY <2>1, <4>1, <4>2, <4>4
      <3> QED BY <1>7, <2>1, <3>1 DEF Counts
    <2> QED BY <1>3, <1>4, <1>5, <2>2, <2>3, <2>4, <2>5
  <1>10. CASE ~word.locked
    <2>1. /\ word'.block = word.block /\ word'.locked /\ word'.count = word.count /\ Current' = word'
          /\ call' = [call EXCEPT ![t] = "wake"] /\ pc' = [pc EXCEPT ![t] = "waking"]
      BY <1>6, <1>10 DEF WakeConditionVariable, Goto, OfThreads, TypeOK, Words
    <2>2. Lists(L, pos, m)'
      BY <1>1, <2>1, ListsLock
    <2>a. /\ \A x \in Thread : x # t => pc'[x] = pc[x] /\ call'[x] = call[x]
          /\ pc'[t] = "waking" /\ call'[t] = "wake"
      BY <2>1 DEF OfThreads, TypeOK
    <2>3. AllOn(L, T)'
      <3>1. \A x \in Thread : On(x) => On(x)'
        BY <1>1, <1>2, <2>a DEF On
      <3> QED BY <3>1, AllOnSame
    <2>4. Proper(L)'
      BY <1>1, <1>2, <2>a DEF Proper, links
    <2>5. Counts(T)'
      <3>1. word.count = 0 /\ owed <= forgotten /\ \A o \in Thread : ~Owner(o)
        BY <1>10 DEF OfThreads, OwnerInv, Counts
      <3>2. \A o \in Thread : Owner(o)' => o = t
        BY <2>a, <3>1 DEF Owner
      <3>3. Own(t)' = 1 /\ Cardinality(T[t]) = 0
        <4>1. pWake[t] = Null
          BY <1>1 DEF OfThreads, LocalInv, LocalAt
        <4> QED BY <2>a, <4>1, TakenIs DEF Own
      <3>4. owed' <= forgotten' + 1
        <4>1. owed + 1 <= forgotten + 1
          BY <3>1 DEF Counts
        <4> QED BY <1>7, <4>1
      <3> QED BY <1>7, <2>1, <3>1, <3>2, <3>3, <3>4 DEF Counts
    <2> QED BY <1>3, <1>4, <1>5, <2>2, <2>3, <2>4, <2>5
  <1> QED BY <1>6, <1>9, <1>10

LEMMA HeldWakeAll ==
  ASSUME OfThreads, NEW L \in SUBSET Thread, NEW T \in [Thread -> SUBSET Thread],
         NEW pos \in [Thread -> Nat], NEW r \in [Thread -> Nat], NEW m \in Block, Holds(L, T, pos, r, m),
         NEW t \in Thread, WakeAllConditionVariable(t)
  PROVE  /\ word.locked => Moved(L, T, pos)
         /\ ~word.locked => Moved({}, [T EXCEPT ![t] = L], pos)
  <1> USE DEF Holds
  <1>1. UNCHANGED <<links, spinning, then, Current>> /\ pc[t] = "idle" /\ word.block # Null
    BY DEF WakeAllConditionVariable
  <1>2. ~On(t) /\ t \notin L /\ pWake[t] = Null
    BY <1>1, NotOn DEF On, OfThreads, LocalInv, LocalAt
  <1>3. word.locked \in BOOLEAN
    BY WordsAre DEF OfThreads
  <1>4. CASE word.locked
    <2>1. word'.block = word.block /\ word'.locked /\ word'.count = WakeMask /\ UNCHANGED <<pc, call, pWake>>
      BY <1>3, <1>4 DEF WakeAllConditionVariable, OfThreads, TypeOK, Words
    <2>2. Lists(L, pos, m)'
      BY <1>1, <1>4, <2>1, ListsSame DEF links
    <2>3. LinksOK' /\ Takes(T, r)' /\ Apart(L, T)'
      BY <1>1, <2>1, TakesSame DEF LinksOK, links, Apart
    <2>4. AllOn(L, T)'
      <3>1. \A x \in Thread : On(x) => On(x)'
        BY <1>1, <2>1 DEF On
      <3> QED BY <3>1, AllOnSame
    <2>5. Proper(L)'
      BY <1>1, <2>1 DEF Proper, links
    <2>6. Counts(T)'
      <3>1. owed' \in Nat /\ forgotten' \in Nat
        <4>1. Owe(Cardinality(List), Cardinality(List)) /\ Cardinality(List) \in Nat /\ forgotten \in Nat
          BY <1>4, ListIs DEF WakeAllConditionVariable, Counts
        <4> QED BY <4>1, OweIs
      <3>2. \A o \in Thread : Owner(o)' => Owner(o) /\ Own(o)' = Own(o)
        BY <2>1 DEF Owner, Own
      <3> QED BY <1>1, <2>1, <3>1, <3>2 DEF Counts
    <2>7. Holds(L, T, pos, r, m)'
      BY <2>2, <2>3, <2>4, <2>5, <2>6
    <2> HIDE DEF Holds
    <2> QED BY <1>4, <2>7 DEF Moved
  <1>5. CASE ~word.locked
    <2> DEFINE T1 == [T EXCEPT ![t] = L]
               r1 == [x \in Thread |-> IF x \in L THEN pos[x] ELSE r[x]]
    <2>1. /\ word' = Empty /\ pWake' = [pWake EXCEPT ![t] = word.block] /\ Owe(0, 0)
          /\ call' = [call EXCEPT ![t] = "wakeAll"] /\ pc' = [pc EXCEPT ![t] = "release"]
      BY <1>5 DEF WakeAllConditionVariable, Goto
    <2>2. /\ \A x \in Thread : x # t => pc'[x] = pc[x] /\ call'[x] = call[x]
          /\ pc'[t] = "release" /\ call'[t] = "wakeAll"
      BY <2>1 DEF OfThreads, TypeOK
    <2>3. LinksOK'
      <3>1. word.block \in Block
        BY WordsAre DEF OfThreads
      <3> QED BY <1>1, <2>1, <3>1 DEF LinksOK, links
    <2>4. Lists({}, pos, m)'
      BY <2>1, ListedNone DEF Lists
    <2>5. T[t] = {}
      BY <1>2, TakenIs
    <2>6. Takes(T1, r1)'
      <3>1. Ordered(back', T1[t], pWake'[t], r1)
        <4>1. Ordered(back, L, word.block, pos)
          BY DEF Lists, ListedAt
        <4>2. T1[t] = L /\ pWake'[t] = word.block /\ back' = back /\ \A x \in L : r1[x] = pos[x]
          BY <1>1, <2>1 DEF LinksOK, links
        <4> HIDE DEF T1, r1
        <4> QED BY <4>1, <4>2, OrderedAlike
      <3>2. ASSUME NEW u \in Thread, u # t
            PROVE  Ordered(back', T1[u], pWake'[u], r1)
        <4>1. Ordered(back, T[u], pWake[u], r)
          BY DEF Takes
        <4>2. T1[u] = T[u] /\ pWake'[u] = pWake[u] /\ back' = back /\ \A x \in T[u] : r1[x] = r[x]
          <5>1. T[u] \cap L = {} /\ T[u] \subseteq Thread
            BY DEF Apart
          <5> QED BY <1>1, <2>1, <3>2, <5>1 DEF LinksOK, links
        <4> HIDE DEF T1, r1
        <4> QED BY <4>1, <4>2, OrderedAlike
      <3> QED BY <3>1, <3>2 DEF Takes
    <2>7. Apart({}, T1)'
      BY <2>5 DEF Apart
    <2>8. AllOn({}, T1)'
      <3>1. \A x \in Thread : On(x) => On(x)'
        BY <1>1, <1>2, <2>2 DEF On
      <3> QED BY <3>1 DEF AllOn
    <2>9. \A o \in Thread : ~Owner(o)
      BY <1>5 DEF OfThreads, OwnerInv
    <2>10. Proper({})'
      BY <1>1, <2>2, <2>9 DEF Proper, links, Owner
    <2>11. Counts(T1)'
      <3>1. owed' \in Nat /\ forgotten' \in Nat /\ owed' <= 0
        <4>1. forgotten \in Nat
          BY DEF Counts
        <4> QED BY <2>1, <4>1, OweIs
      <3>2. \A o \in Thread : ~Owner(o)'
        BY <2>2, <2>9 DEF Owner
      <3> QED BY <3>1, <3>2 DEF Counts
    <2>12. T1 \in [Thread -> SUBSET Thread] /\ r1 \in [Thread -> Nat]
      OBVIOUS
    <2>13. Holds({}, T1, pos, r1, m)'
      <3> HIDE DEF T1, r1
      <3> QED BY <2>3, <2>4, <2>6, <2>7, <2>8, <2>10, <2>11
    <2> HIDE DEF T1, r1, Holds
    <2>14. Moved({}, T1, pos)
      BY <2>12, <2>13 DEF Moved
    <2> QED BY <1>5, <2>14 DEF T1
  <1> QED BY <1>3, <1>4, <1>5

-----------------------------------------------------------------------------
(* The owner tidies the list, or sees what has come.                       *)

\* Its walk writes into blocks of the list alone.
LEMMA ListsLinked ==
  ASSUME LinksOK, NEW L, NEW pos \in [Thread -> Nat], NEW m, Lists(L, pos, m), word.locked
  PROVE  /\ Linked(Current.block) \in [Thread -> Block]
         /\ \A x \in Thread \ L : Linked(Current.block)[x] = next[x]
         /\ Oldest(Current.block) \in L /\ \A x \in L : pos[Oldest(Current.block)] <= pos[x]
  <1>1. ListedAt(word, Current, back, notify, next, L, pos, m)
    BY DEF Lists
  <1>2. Ordered(back, L, word.block, pos) /\ Above(next, L, pos, m, Current.block) /\ Current.block \in L
    BY <1>1 DEF ListedAt, Above
  <1>3. Known(notify, L, pos, m) /\ Forward(next, back, L, pos, m) /\ pos[m] <= pos[Current.block]
    BY <1>1, <1>2 DEF ListedAt, Above
  <1>4. back \in [Thread -> Block] /\ next \in [Thread -> Block] /\ notify \in [Thread -> Block]
    BY DEF LinksOK
  <1> QED BY <1>2, <1>3, <1>4, LinkedIs, OldestIs

LEMMA OnlyOwner ==
  ASSUME OfThreads, NEW t \in Thread, Owner(t)
  PROVE  word.locked /\ \A x \in Thread : Owner(x) => x = t
  BY DEF OfThreads, OwnerInv

LEMMA HoldsLinked ==
  ASSUME OfThreads, NEW L \in SUBSET Thread, NEW T \in [Thread -> SUBSET Thread],
         NEW pos \in [Thread -> Nat], NEW r \in [Thread -> Nat], NEW m, Holds(L, T, pos, r, m),
         NEW t \in Thread, Owner(t), NEW h, h = Current.block, NEW m1,
         \/ notify' = notify /\ m1 = m
         \/ notify' = [notify EXCEPT ![h] = Oldest(h)] /\ m1 = h,
         next' = Linked(h), UNCHANGED <<back, spinning, call, then, pWake>>,
         word'.block = word.block, word'.locked => Current'.block = word.block,
         \A x \in Thread : x # t => pc'[x] = pc[x],
         On(t) => On(t)', pc'[t] \notin {"idle", "removeNewest"}, pc'[t] = "optimize" => t \in L,
         Counts(T)'
  PROVE  Holds(L, T, pos, r, m1)'
  <1> USE DEF Holds
  <1>1. word.locked
    BY OnlyOwner
  <1>2. Linked(h) \in [Thread -> Block] /\ (\A x \in Thread \ L : Linked(h)[x] = next[x]) /\ Oldest(h) \in L
    BY <1>1, ListsLinked
  <1>3. LinksOK'
    BY <1>2 DEF LinksOK, Block
  <1>4. Lists(L, pos, m1)'
    <2>1. back \in [Thread -> Block] /\ next \in [Thread -> Block] /\ notify \in [Thread -> Block]
      BY DEF LinksOK
    <2>2. ListedAt(word, Current, back, notify, next, L, pos, m)
      BY DEF Lists
    <2>3. /\ ListedAt(word', Current', back, notify, Linked(h), L, pos, m)
          /\ ListedAt(word', Current', back, [notify EXCEPT ![h] = Oldest(h)], Linked(h), L, pos, h)
      BY <1>1, <2>1, <2>2, ListedLinked
    <2> QED BY <2>3 DEF Lists
  <1>5. Takes(T, r)'
    BY TakesSame
  <1>6. Apart(L, T)'
    BY DEF Apart
  <1>7. AllOn(L, T)'
    <2>1. \A x \in Thread : x # t => (On(x) => On(x)')
      BY OnSame
    <2> QED BY <2>1, AllOnSame
  <1>8. Proper(L)'
    <2>1. ASSUME NEW x \in Thread, x # t
          PROVE  /\ pc'[x] \in {"optimize", "removeNewest"} => x \in L
                 /\ pc'[x] = "idle" => next'[x] = Null /\ spinning'[x]
      <3>1. pc'[x] = "idle" => x \notin L
        BY <2>1, NotOn DEF On
      <3> QED BY <1>2, <2>1, <3>1 DEF Proper
    <2> QED BY <2>1 DEF Proper
  <1> QED BY <1>3, <1>4, <1>5, <1>6, <1>7, <1>8

LEMMA HeldOptimize ==
  ASSUME OfThreads, NEW L \in SUBSET Thread, NEW T \in [Thread -> SUBSET Thread],
         NEW pos \in [Thread -> Nat], NEW r \in [Thread -> Nat], NEW m, Holds(L, T, pos, r, m),
         NEW t \in Thread, Optimize(t)
  PROVE  Moved(L, T, pos)
  <1>1. PICK h : h = Current.block
    OBVIOUS
  <1>2. /\ pc[t] = "optimize" /\ Owner(t) /\ next' = Linked(h) /\ notify' = [notify EXCEPT ![h] = Oldest(h)]
        /\ UNCHANGED <<back, spinning, call, then, pWake, ghosts>>
    BY <1>1 DEF Optimize, Owner
  <1>3. word.locked /\ \A x \in Thread : Owner(x) => x = t
    BY <1>2, OnlyOwner
  <1>4. call[t] = "sleep" /\ then[t] = "spin" /\ t \in L /\ spinning[t] /\ Current.count = 0 /\ pWake[t] = Null
    <2>1. t \in L /\ On(t)
      BY <1>2 DEF Holds, Proper, AllOn
    <2> QED BY <1>2, <2>1 DEF On, OfThreads, LocalInv, LocalAt, Sleeping, OwnerInv
  <1>5. T[t] = {} /\ Cardinality(T[t]) = 0 /\ Own(t) = 0
    BY <1>4, TakenIs DEF Holds, Own
  <1>6. /\ word'.block = word.block /\ (word'.locked => Current'.block = word.block)
        /\ \/ word = Current /\ ~word'.locked /\ pc' = [pc EXCEPT ![t] = "spin"]
           \/ /\ word' = word /\ Current' = word
              /\ \E p \in {"waking", "optimize"} : pc' = [pc EXCEPT ![t] = p]
    BY DEF Optimize, Goto, Word
  <1>7. (\A x \in Thread : x # t => pc'[x] = pc[x]) /\ pc'[t] \in {"spin", "waking", "optimize"}
    BY <1>6 DEF OfThreads, TypeOK
  <1>8. On(t)'
    BY <1>2, <1>4, <1>7 DEF On
  <1>9. Counts(T)'
    <2>1. \A o \in Thread : Owner(o)' => o = t
      BY <1>3, <1>7 DEF Owner
    <2>2. /\ owed \in Nat /\ forgotten \in Nat
          /\ word.count # WakeMask => owed <= forgotten + (word.count + Own(t) - Cardinality(T[t]))
      BY <1>2 DEF Holds, Counts
    <2>3. Own(t)' = 0 /\ owed' = owed /\ forgotten' = forgotten
      BY <1>2, <1>5 DEF ghosts, Own
    <2>4. CASE word = Current /\ ~word'.locked /\ pc' = [pc EXCEPT ![t] = "spin"]
      <3>1. word.count = 0 /\ WakeMask # 0
        BY <1>4, <2>4, WakeMaskPositive
      <3>2. owed' <= forgotten'
        BY <1>5, <2>2, <2>3, <3>1
      <3>3. \A o \in Thread : ~Owner(o)'
        BY <2>1, <2>4 DEF Owner, OfThreads, TypeOK
      <3> QED BY <2>2, <2>3, <3>2, <3>3 DEF Counts
    <2>5. CASE word' = word /\ Current' = word
      <3>1. word.count \in Nat
        BY WordsAre DEF OfThreads
      <3>2. Cardinality(T[t]) <= Current'.count + Own(t)'
        BY <1>5, <2>3, <2>5, <3>1
      <3>3. word'.count # WakeMask => owed' <= forgotten' + (word'.count + Own(t)' - Cardinality(T[t]))
        BY <1>5, <2>2, <2>3, <2>5
      <3> QED BY <1>3, <2>1, <2>2, <2>3, <2>5, <3>2, <3>3 DEF Counts
    <2> QED BY <1>6, <2>4, <2>5
  <1>10. Holds(L, T, pos, r, h)'
    BY <1>1, <1>2, <1>4, <1>6, <1>7, <1>8, <1>9, HoldsLinked
  <1>11. h \in Block
    BY <1>1, WordsAre DEF OfThreads
  <1> QED BY <1>10, <1>11 DEF Moved

\* The owner that wakes others has not taken too many.
LEMMA HoldsUnlock ==
  ASSUME OfThreads, NEW L \in SUBSET Thread, NEW T \in [Thread -> SUBSET Thread],
         NEW pos \in [Thread -> Nat], NEW r \in [Thread -> Nat], NEW m, Holds(L, T, pos, r, m),
         NEW t \in Thread, pc[t] = "waking", next' = Linked(Current.block),
         UNCHANGED <<back, notify, spinning, call, then, pWake, ghosts>>,
         \/ word' = word /\ Current' = word /\ UNCHANGED pc
         \/ /\ word = Current /\ word.count # WakeMask /\ Cardinality(T[t]) >= word.count + Own(t)
            /\ word' = Word(word.block, FALSE, 0) /\ pc' = [pc EXCEPT ![t] = "release"]
  PROVE  Holds(L, T, pos, r, m)'
  <1>1. PICK h : h = Current.block
    OBVIOUS
  <1>2. Owner(t)
    BY DEF Owner
  <1>3. word.locked /\ \A x \in Thread : Owner(x) => x = t
    BY <1>2, OnlyOwner
  <1>4. word'.block = word.block /\ (word'.locked => Current'.block = word.block)
    BY DEF Word
  <1>5. (\A x \in Thread : x # t => pc'[x] = pc[x]) /\ pc'[t] \in {"waking", "release"}
    BY DEF OfThreads, TypeOK
  <1>6. On(t) => On(t)'
    BY <1>5 DEF On
  <1>7. Counts(T)'
    <2>1. \A o \in Thread : Owner(o)' => o = t
      BY <1>3, <1>5 DEF Owner
    <2>2. /\ owed \in Nat /\ forgotten \in Nat /\ Cardinality(T[t]) <= Current.count + Own(t)
          /\ word.count # WakeMask => owed <= forgotten + (word.count + Own(t) - Cardinality(T[t]))
      BY <1>2 DEF Holds, Counts
    <2>3. Own(t)' = Own(t) /\ owed' = owed /\ forgotten' = forgotten /\ Own(t) \in {0, 1}
      BY DEF ghosts, Own
    <2>4. word.count \in Nat /\ Current.count \in Nat /\ Current.count <= word.count /\ Cardinality(T[t]) \in Nat
      BY <1>3, WordsAre, TakenIs DEF OfThreads, OwnerInv, Holds
    <2>5. CASE word' = word /\ Current' = word
      <3>1. Cardinality(T[t]) <= Current'.count + Own(t)'
        BY <2>2, <2>3, <2>4, <2>5
      <3>2. word'.count # WakeMask => owed' <= forgotten' + (word'.count + Own(t)' - Cardinality(T[t]))
        BY <2>2, <2>3, <2>5
      <3> QED BY <1>3, <2>1, <2>2, <2>3, <2>5, <3>1, <3>2 DEF Counts
    <2>6. CASE /\ word = Current /\ word.count # WakeMask /\ Cardinality(T[t]) >= word.count + Own(t)
               /\ word' = Word(word.block, FALSE, 0) /\ pc' = [pc EXCEPT ![t] = "release"]
      <3>1. owed' <= forgotten'
        BY <2>2, <2>3, <2>4, <2>6
      <3>2. \A o \in Thread : ~Owner(o)'
        BY <2>1, <2>6 DEF Owner, OfThreads, TypeOK
      <3> QED BY <2>2, <2>3, <3>1, <3>2 DEF Counts
    <2> QED BY <2>5, <2>6
  <1> QED BY <1>1, <1>2, <1>4, <1>5, <1>6, <1>7, HoldsLinked

-----------------------------------------------------------------------------
(* The owner takes blocks off the list.                                    *)

\* The blocks of X go from the list, as "old" links them, to what t has taken.
LEMMA HeldTaken ==
  ASSUME OfThreads, NEW L \in SUBSET Thread, NEW T \in [Thread -> SUBSET Thread],
         NEW pos \in [Thread -> Nat], NEW r \in [Thread -> Nat], NEW m, Holds(L, T, pos, r, m),
         NEW t \in Thread, pc[t] = "waking",
         NEW X \in SUBSET L, NEW h \in Thread, NEW old \in [Thread -> Block], Ordered(old, X, h, pos),
         \A x \in Thread \ L : old[x] = back[x],
         back' = Appended(old, t, h), Take(t, h),
         NEW m1 \in Block, ListedAt(word', Current', old, notify', next', L \ X, pos, m1),
         notify' \in [Thread -> Block], next' \in [Thread -> Block], \A x \in Thread \ L : next'[x] = next[x],
         UNCHANGED <<spinning, call, then>>,
         \A x \in Thread : x # t => pc'[x] = pc[x], pc'[t] \in {"waking", "release"},
         Counts([T EXCEPT ![t] = T[t] \cup X])'
  PROVE  Moved(L \ X, [T EXCEPT ![t] = T[t] \cup X], pos)
  <1> USE DEF Holds
  <1> DEFINE T1 == [T EXCEPT ![t] = T[t] \cup X]
             L1 == L \ X
  <1>1. Apart(X, T) /\ (\A u \in Thread : \A x \in T[u] : old[x] = back[x])
    BY DEF Apart
  <1>2. /\ back' \in [Thread -> Block] /\ pWake' \in [Thread -> Block]
        /\ \A x \in Thread \ T[t] : back'[x] = old[x]
        /\ \E r1 \in [Thread -> Nat] : Takes(T1, r1)'
    <2>1. X \in SUBSET Thread
      OBVIOUS
    <2>2. LinksOK /\ Appends(T, r, X, pos, h, old, t)
      BY <1>1 DEF Appends
    <2> HIDE DEF T1, Holds
    <2>3. /\ back' \in [Thread -> Block] /\ pWake' \in [Thread -> Block]
          /\ \A x \in Thread \ T[t] : back'[x] = old[x]
          /\ \E r1 \in [Thread -> Nat] : Takes([T EXCEPT ![t] = T[t] \cup X], r1)'
      BY <2>1, <2>2, AppendedIs
    <2> QED BY <2>3 DEF T1
  <1>3. PICK r1 \in [Thread -> Nat] : Takes(T1, r1)'
    BY <1>2
  <1>4. Takes(T1, r1)'
    BY <1>3
  <1>5. LinksOK'
    BY <1>2 DEF LinksOK
  <1>6. Lists(L1, pos, m1)'
    <2>1. \A x \in L1 : back'[x] = old[x]
      BY <1>2 DEF Apart
    <2> QED BY <2>1, ListedSame DEF Lists
  <1>7. Apart(L1, T1)'
    BY DEF Apart
  <1>8. AllOn(L1, T1)'
    <2>1. \A x \in Thread : x # t => (On(x) => On(x)')
      BY OnSame
    <2>2. On(t) => On(t)'
      BY DEF On
    <2>3. (\A x \in L : On(x)') /\ \A u \in Thread : \A x \in T[u] : On(x)'
      BY <2>1, <2>2 DEF AllOn
    <2> QED BY <2>3 DEF AllOn
  <1>9. Proper(L1)'
    <2>1. ASSUME NEW x \in Thread, x # t
          PROVE  /\ ~(pc'[x] \in {"optimize", "removeNewest"})
                 /\ pc'[x] = "idle" => next'[x] = Null /\ spinning'[x]
      <3>1. pc'[x] = "idle" => x \notin L
        BY <2>1, NotOn DEF On
      <3>2. ~Owner(x)
        BY <2>1, OnlyOwner DEF Owner
      <3> QED BY <2>1, <3>1, <3>2 DEF Proper, Owner
    <2> QED BY <2>1 DEF Proper
  <1>10. L1 \in SUBSET Thread /\ T1 \in [Thread -> SUBSET Thread]
    OBVIOUS
  <1>11. Holds(L1, T1, pos, r1, m1)'
    <2> HIDE DEF L1, T1
    <2>1. Counts(T1)'
      BY DEF T1
    <2> QED BY <1>4, <1>5, <1>6, <1>7, <1>8, <1>9, <2>1
  <1> HIDE DEF L1, T1, Holds
  <1>12. Moved(L1, T1, pos)
    BY <1>10, <1>11 DEF Moved
  <1> QED BY <1>12 DEF L1, T1

LEMMA HeldTakeAll ==
  ASSUME OfThreads, NEW L \in SUBSET Thread, NEW T \in [Thread -> SUBSET Thread],
         NEW pos \in [Thread -> Nat], NEW r \in [Thread -> Nat], NEW m \in Block, Holds(L, T, pos, r, m),
         NEW t \in Thread, TakeAll(t)
  PROVE  Moved(L \ L, [T EXCEPT ![t] = T[t] \cup L], pos)
  <1>1. pc[t] = "waking" /\ Owner(t)
    BY DEF TakeAll, Owner
  <1>2. word.locked /\ \A x \in Thread : Owner(x) => x = t
    BY <1>1, OnlyOwner
  <1>3. PICK h : h = word.block
    OBVIOUS
  <1>4. PICK old : old = back
    OBVIOUS
  <1>5. /\ word' = Empty /\ Current' = Empty /\ back' = Appended(old, t, h) /\ Take(t, h) /\ Owe(0, 0)
        /\ pc' = [pc EXCEPT ![t] = "release"] /\ UNCHANGED <<notify, next, spinning, call, then>>
    BY <1>3, <1>4 DEF TakeAll, Goto
  <1>6. Ordered(old, L, h, pos) /\ h \in Thread /\ old \in [Thread -> Block]
    <2>1. Ordered(back, L, word.block, pos)
      BY DEF Holds, Lists, ListedAt
    <2>2. word.block # Null
      BY <1>2 DEF OfThreads, OwnerInv, Empty, Word
    <2> QED BY <1>3, <1>4, <2>1, <2>2, WordsAre DEF OfThreads, Block, Holds, LinksOK
  <1>7. ListedAt(word', Current', old, notify', next', {}, pos, m) /\ L \ L = {}
    BY <1>5, ListedNone
  <1>8. (\A x \in Thread : x # t => pc'[x] = pc[x]) /\ pc'[t] = "release"
    BY <1>5 DEF OfThreads, TypeOK
  <1>9. Counts([T EXCEPT ![t] = T[t] \cup L])'
    <2>1. owed' \in Nat /\ forgotten' \in Nat /\ owed' <= 0
      <3>1. forgotten \in Nat
        BY DEF Holds, Counts
      <3> QED BY <1>5, <3>1, OweIs
    <2>2. \A o \in Thread : ~Owner(o)'
      BY <1>2, <1>8 DEF Owner
    <2> QED BY <2>1, <2>2 DEF Counts
  <1>10. notify' \in [Thread -> Block] /\ next' \in [Thread -> Block] /\ \A x \in Thread \ L : next'[x] = next[x]
    BY <1>5 DEF Holds, LinksOK
  <1>11. \A x \in Thread \ L : old[x] = back[x]
    BY <1>4
  <1>12. L \in SUBSET L
    OBVIOUS
  <1>13. ListedAt(word', Current', old, notify', next', L \ L, pos, m)
    BY <1>7
  <1> QED BY <1>1, <1>5, <1>6, <1>8, <1>9, <1>10, <1>11, <1>12, <1>13, HeldTaken

\* What the counts are when one more has been taken.
LEMMA CountsTaken ==
  ASSUME OfThreads, NEW L \in SUBSET Thread, NEW T \in [Thread -> SUBSET Thread],
         NEW pos \in [Thread -> Nat], NEW r \in [Thread -> Nat], NEW m, Holds(L, T, pos, r, m),
         NEW t \in Thread, pc[t] = "waking", Current.count # WakeMask, Count(t) < MaxWakeCount(t),
         NEW o \in L, Owe(owed - 1, Cardinality(List) - 1), UNCHANGED call,
         \A x \in Thread : x # t => pc'[x] = pc[x],
         \/ UNCHANGED <<word, Current>>
         \/ word' = Empty /\ L = {o} /\ pc'[t] = "release"
  PROVE  Counts([T EXCEPT ![t] = T[t] \cup {o}])'
  <1> DEFINE T1 == [T EXCEPT ![t] = T[t] \cup {o}]
  <1>1. Owner(t)
    BY DEF Owner
  <1>2. word.locked /\ \A x \in Thread : Owner(x) => x = t
    BY <1>1, OnlyOwner
  <1>3. Cardinality(T1[t]) = Cardinality(T[t]) + 1 /\ Cardinality(T[t]) \in Nat /\ Count(t) = Cardinality(T[t])
    <2>1. o \notin T[t]
      BY DEF Holds, Apart
    <2>2. IsFiniteSet(T[t]) /\ Cardinality(T[t]) \in Nat /\ Count(t) = Cardinality(T[t])
      BY TakenIs DEF Holds
    <2> QED BY <2>1, <2>2, FS_AddElement
  <1>4. Cardinality(List) \in Nat /\ Cardinality(List) # 0 /\ (L = {o} => Cardinality(List) = 1)
    <2>1. List = L /\ IsFiniteSet(L)
      BY ListIs DEF Holds
    <2>2. Cardinality(L) \in Nat /\ Cardinality(L) # 0
      BY <2>1, FS_CardinalityType, FS_EmptySet
    <2>3. Cardinality({o}) = 1
      BY FS_Singleton
    <2> QED BY <2>1, <2>2, <2>3
  <1>5. owed \in Nat /\ forgotten \in Nat
    BY DEF Holds, Counts
  <1>6. /\ owed' \in Nat /\ forgotten' \in Nat /\ owed' <= Cardinality(List) - 1
        /\ \A k \in Nat : owed - 1 <= forgotten + k => owed' <= forgotten' + k
    <2>1. owed - 1 \in Int /\ Cardinality(List) - 1 \in Nat
      BY <1>4, <1>5
    <2> QED BY <1>5, <2>1, OweIs
  <1>7. \A x \in Thread : Owner(x)' => x = t
    BY <1>2 DEF Owner
  <1>8. Own(t) \in {0, 1} /\ Own(t)' = Own(t) /\ MaxWakeCount(t) = Current.count + Own(t)
    BY DEF Own, MaxWakeCount
  <1>9. CASE UNCHANGED <<word, Current>>
    <2>1. word.count \in Nat /\ Current.count \in Nat /\ Current.count <= word.count
      BY <1>2, WordsAre DEF OfThreads, OwnerInv
    <2>2. word.count # WakeMask => owed <= forgotten + (word.count + Own(t) - Cardinality(T[t]))
      BY <1>1 DEF Holds, Counts
    <2>3. Cardinality(T[t]) + 1 <= Current.count + Own(t)
      BY <1>3, <1>8, <2>1
    <2> DEFINE k == word.count + Own(t) - (Cardinality(T[t]) + 1)
    <2>4. k \in Nat
      BY <1>3, <1>8, <2>1, <2>3
    <2>5. word.count # WakeMask => owed - 1 <= forgotten + k
      BY <1>3, <1>5, <1>8, <2>1, <2>2
    <2>6. word.count # WakeMask => owed' <= forgotten' + k
      BY <1>6, <2>4, <2>5
    <2> HIDE DEF T1
    <2>7. Cardinality(T1[t]) <= Current'.count + Own(t)'
      BY <1>3, <1>8, <1>9, <2>3
    <2>8. word'.count # WakeMask => owed' <= forgotten' + (word'.count + Own(t)' - Cardinality(T1[t]))
      BY <1>3, <1>8, <1>9, <2>6
    <2>9. Counts(T1)'
      BY <1>2, <1>6, <1>7, <1>9, <2>7, <2>8 DEF Counts
    <2> QED BY <2>9 DEF T1
  <1>10. CASE word' = Empty /\ L = {o} /\ pc'[t] = "release"
    <2>1. owed' <= forgotten'
      BY <1>4, <1>6, <1>10
    <2>2. \A x \in Thread : ~Owner(x)'
      BY <1>7, <1>10 DEF Owner
    <2> QED BY <1>6, <2>1, <2>2 DEF Counts
  <1> QED BY <1>9, <1>10

LEMMA HeldTakeOldest ==
  ASSUME OfThreads, NEW L \in SUBSET Thread, NEW T \in [Thread -> SUBSET Thread],
         NEW pos \in [Thread -> Nat], NEW r \in [Thread -> Nat], NEW m \in Block, Holds(L, T, pos, r, m),
         NEW t \in Thread, TakeOldest(t)
  PROVE  \E o \in L : Moved(L \ {o}, [T EXCEPT ![t] = T[t] \cup {o}], pos) /\ \A x \in L : pos[o] <= pos[x]
  <1>1. pc[t] = "waking" /\ Current.count # WakeMask /\ Count(t) < MaxWakeCount(t) /\ Owner(t)
    BY DEF TakeOldest, Waking, Owner
  <1>2. word.locked
    BY <1>1, OnlyOwner
  <1>3. PICK h : h = Current.block
    OBVIOUS
  <1>4. PICK o : o = Oldest(h)
    OBVIOUS
  <1>5. PICK rest : rest = Linked(h)[o]
    OBVIOUS
  <1>6. PICK old : old = [back EXCEPT ![o] = Null, ![rest] = Null]
    OBVIOUS
  <1>7. /\ rest # Null /\ next' = Linked(h) /\ notify' = [notify EXCEPT ![h] = rest]
        /\ back' = Appended(old, t, o) /\ Take(t, o) /\ Owe(owed - 1, Cardinality(List) - 1)
        /\ UNCHANGED <<word, spinning, pc, call, then, Current>>
    BY <1>3, <1>4, <1>5, <1>6 DEF TakeOldest
  <1>8. back \in [Thread -> Block] /\ next \in [Thread -> Block] /\ notify \in [Thread -> Block]
    BY DEF Holds, LinksOK
  <1>9. ListedAt(word, Current, back, notify, next, L, pos, m)
    BY DEF Holds, Lists
  <1>10. /\ o \in L /\ Linked(h) \in [Thread -> Block] /\ \A x \in Thread \ L : Linked(h)[x] = next[x]
         /\ \A x \in L : pos[o] <= pos[x]
    BY <1>2, <1>3, <1>4, ListsLinked DEF Holds
  <1>11. rest \in Thread
    BY <1>5, <1>7, <1>10 DEF Block
  <1>12. /\ old \in [Thread -> Block] /\ old[rest] = Null /\ old[o] = Null
         /\ \A x \in Thread \ {o, rest} : old[x] = back[x]
    BY <1>6, <1>8, <1>10, <1>11 DEF Block
  <1>13. rest \in L \ {o} /\ ListedAt(word, Current, old, [notify EXCEPT ![h] = rest], Linked(h), L \ {o}, pos, h)
    <2>1. OldestLeaves(L, h, o, rest, old)
      BY <1>3, <1>4, <1>5, <1>7, <1>12 DEF OldestLeaves
    <2> QED BY <1>2, <1>8, <1>9, <2>1, ListedOldest
  <1>14. ListedAt(word', Current', old, notify', next', L \ {o}, pos, h)
    BY <1>7, <1>13
  <1>15. Ordered(old, {o}, o, pos)
    <2>1. o # Null /\ pos[o] \in Nat
      BY <1>10, NullIsNoThread
    <2> QED BY <1>10, <1>12, <2>1 DEF Ordered
  <1>16. h \in Block /\ notify' \in [Thread -> Block]
    BY <1>3, <1>7, <1>8, <1>11, WordsAre DEF OfThreads, Block
  <1>17. Counts([T EXCEPT ![t] = T[t] \cup {o}])'
    BY <1>1, <1>7, <1>10, CountsTaken
  <1>18. \A x \in Thread \ L : old[x] = back[x]
    BY <1>10, <1>12, <1>13
  <1>19. {o} \in SUBSET L /\ o \in Thread
    BY <1>10
  <1>20. next' \in [Thread -> Block] /\ \A x \in Thread \ L : next'[x] = next[x]
    BY <1>7, <1>10
  <1>21. (\A x \in Thread : x # t => pc'[x] = pc[x]) /\ pc'[t] = "waking"
    BY <1>1, <1>7
  <1>22. Moved(L \ {o}, [T EXCEPT ![t] = T[t] \cup {o}], pos)
    BY <1>1, <1>7, <1>12, <1>14, <1>15, <1>16, <1>17, <1>18, <1>19, <1>20, <1>21, HeldTaken
  <1> QED BY <1>10, <1>22

LEMMA HeldTakeLast ==
  ASSUME OfThreads, NEW L \in SUBSET Thread, NEW T \in [Thread -> SUBSET Thread],
         NEW pos \in [Thread -> Nat], NEW r \in [Thread -> Nat], NEW m \in Block, Holds(L, T, pos, r, m),
         NEW t \in Thread, TakeLast(t)
  PROVE  /\ word # Current => Moved(L, T, pos)
         /\ word = Current => \E o : L = {o} /\ Moved(L \ {o}, [T EXCEPT ![t] = T[t] \cup {o}], pos)
  <1>1. pc[t] = "waking" /\ Current.count # WakeMask /\ Count(t) < MaxWakeCount(t) /\ Owner(t)
    BY DEF TakeLast, Waking, Owner
  <1>2. word.locked
    BY <1>1, OnlyOwner
  <1>3. CASE word # Current
    <2>1. /\ next' = Linked(Current.block) /\ word' = word /\ Current' = word
          /\ UNCHANGED <<back, notify, spinning, call, then, pWake, ghosts, pc>>
      BY <1>3 DEF TakeLast
    <2>2. Holds(L, T, pos, r, m)'
      BY <1>1, <2>1, HoldsUnlock
    <2> QED BY <1>3, <2>2 DEF Moved
  <1>4. CASE word = Current
    <2>1. PICK h : h = Current.block
      OBVIOUS
    <2>2. PICK o : o = Oldest(h)
      OBVIOUS
    <2>3. PICK old : old = [back EXCEPT ![o] = Null]
      OBVIOUS
    <2>4. /\ Linked(h)[o] = Null /\ next' = Linked(h) /\ word' = Empty /\ Current' = Empty
          /\ back' = Appended(old, t, o) /\ Take(t, o) /\ Owe(owed - 1, Cardinality(List) - 1)
          /\ pc' = [pc EXCEPT ![t] = "release"] /\ UNCHANGED <<notify, spinning, call, then>>
      BY <1>4, <2>1, <2>2, <2>3 DEF TakeLast, Goto
    <2>5. back \in [Thread -> Block] /\ next \in [Thread -> Block] /\ notify \in [Thread -> Block]
      BY DEF Holds, LinksOK
    <2>6. ListedAt(word, Current, back, notify, next, L, pos, m)
      BY DEF Holds, Lists
    <2>7. o \in L /\ Linked(h) \in [Thread -> Block] /\ \A x \in Thread \ L : Linked(h)[x] = next[x]
      BY <1>2, <2>1, <2>2, ListsLinked DEF Holds
    <2>8. L = {o}
      BY <1>2, <1>4, <2>1, <2>2, <2>4, <2>5, <2>6, OnlyOne
    <2>9. old \in [Thread -> Block] /\ old[o] = Null /\ \A x \in Thread \ L : old[x] = back[x]
      BY <2>3, <2>5, <2>7, <2>8 DEF Block
    <2>10. Ordered(old, {o}, o, pos)
      <3>1. o # Null /\ pos[o] \in Nat
        BY <2>7, NullIsNoThread
      <3> QED BY <2>7, <2>9, <3>1 DEF Ordered
    <2>11. L \ {o} = {} /\ ListedAt(word', Current', old, notify', next', {}, pos, m)
      BY <2>4, <2>8, ListedNone
    <2>12. (\A x \in Thread : x # t => pc'[x] = pc[x]) /\ pc'[t] = "release"
      BY <2>4 DEF OfThreads, TypeOK
    <2>13. Counts([T EXCEPT ![t] = T[t] \cup {o}])'
      BY <1>1, <2>4, <2>7, <2>8, <2>12, CountsTaken
    <2>14. ListedAt(word', Current', old, notify', next', L \ {o}, pos, m) /\ {o} \in SUBSET L /\ o \in Thread
      BY <2>7, <2>11
    <2>15. /\ notify' \in [Thread -> Block] /\ next' \in [Thread -> Block]
           /\ \A x \in Thread \ L : next'[x] = next[x]
      BY <2>4, <2>5, <2>7
    <2>16. back' = Appended(old, t, o) /\ Take(t, o) /\ UNCHANGED <<spinning, call, then>>
      BY <2>4
    <2>17. pc'[t] \in {"waking", "release"}
      BY <2>12
    <2>18. Moved(L \ {o}, [T EXCEPT ![t] = T[t] \cup {o}], pos)
      BY <1>1, <2>9, <2>10, <2>12, <2>13, <2>14, <2>15, <2>16, <2>17, HeldTaken
    <2> QED BY <1>4, <2>8, <2>18
  <1> QED BY <1>3, <1>4

LEMMA HeldUnlock ==
  ASSUME OfThreads, NEW L \in SUBSET Thread, NEW T \in [Thread -> SUBSET Thread],
         NEW pos \in [Thread -> Nat], NEW r \in [Thread -> Nat], NEW m \in Block, Holds(L, T, pos, r, m),
         NEW t \in Thread, Unlock(t)
  PROVE  Moved(L, T, pos)
  <1>1. /\ pc[t] = "waking" /\ Current.count # WakeMask /\ next' = Linked(Current.block)
        /\ Count(t) >= MaxWakeCount(t) /\ UNCHANGED <<back, notify, spinning, call, then, pWake, ghosts>>
    BY DEF Unlock, Waking
  <1>2. Count(t) = Cardinality(T[t]) /\ MaxWakeCount(t) = Current.count + Own(t)
    BY TakenIs DEF Holds, MaxWakeCount, Own
  <1>3. \/ word' = word /\ Current' = word /\ UNCHANGED pc
        \/ /\ word = Current /\ word.count # WakeMask /\ Cardinality(T[t]) >= word.count + Own(t)
           /\ word' = Word(word.block, FALSE, 0) /\ pc' = [pc EXCEPT ![t] = "release"]
    BY <1>1, <1>2 DEF Unlock, Goto
  <1>4. Holds(L, T, pos, r, m)'
    BY <1>1, <1>3, HoldsUnlock
  <1> QED BY <1>4 DEF Moved

-----------------------------------------------------------------------------
(* A sleeper whose wait has timed out takes itself off the list.           *)

\* RtlpWakeSingle has walked from h, the newest of S, and t is no longer there.
LEMMA HoldsUnlinked ==
  ASSUME OfThreads, NEW L \in SUBSET Thread, NEW T \in [Thread -> SUBSET Thread],
         NEW pos \in [Thread -> Nat], NEW r \in [Thread -> Nat], NEW m, Holds(L, T, pos, r, m),
         NEW t \in Thread, pc[t] \in {"single", "removeNewest"}, \A x \in Thread : Owner(x) => x = t,
         NEW h, NEW S \in SUBSET L, Ordered(back, S, h, pos), S # {}, S \ {t} = L \ {t}, t # h, Unlink(h, t),
         word'.block = h, Current'.block = h, LeaveAfterWaking(t, t \in L),
         UNCHANGED <<spinning, call, pWake>>, Counts(T)'
  PROVE  Holds(L \ {t}, T, pos, r, h)'
  <1> USE DEF Holds
  <1> DEFINE L1 == L \ {t}
  <1>1. back \in [Thread -> Block] /\ next \in [Thread -> Block] /\ notify \in [Thread -> Block]
    BY DEF LinksOK
  <1>2. /\ back' \in [Thread -> Block] /\ next' \in [Thread -> Block] /\ notify' \in [Thread -> Block]
        /\ \A x \in Thread \ S : back'[x] = back[x] /\ next'[x] = next[x] /\ notify'[x] = notify[x]
        /\ ListedAt(word', Current', back', notify', next', S \ {t}, pos, h)
    BY <1>1, ListedUnlink
  <1>3. LinksOK'
    BY <1>2 DEF LinksOK
  <1>4. Lists(L1, pos, h)'
    BY <1>2 DEF Lists
  <1>5. Takes(T, r)'
    <2>1. ASSUME NEW u \in Thread, NEW x \in T[u]
          PROVE  back'[x] = back[x]
      <3>1. x \in Thread /\ x \notin S
        BY DEF Apart
      <3> QED BY <1>2, <3>1
    <2> QED BY <2>1, TakesSame
  <1>6. Apart(L1, T)'
    BY DEF Apart
  <1>7. /\ \A x \in Thread : x # t => pc'[x] = pc[x] /\ then'[x] = then[x]
        /\ pc'[t] = "waking" /\ then'[t] = IF t \in L THEN "idle" ELSE "kernelAgain"
    BY DEF LeaveAfterWaking, Goto, OfThreads, TypeOK
  <1>8. call[t] = "sleep"
    BY DEF OfThreads, LocalInv, LocalAt, Sleeping
  <1>9. AllOn(L1, T)'
    <2>1. \A x \in Thread : x # t => (On(x) => On(x)')
      BY <1>7, OnSame
    <2>2. t \notin L => On(t)'
      BY <1>7, <1>8 DEF On
    <2>3. t \in L => \A u \in Thread : t \notin T[u]
      BY DEF Apart
    <2>4. \A x \in L1 : On(x)'
      BY <2>1 DEF AllOn
    <2>5. ASSUME NEW u \in Thread, NEW x \in T[u]
          PROVE  On(x)'
      <3>1. x \in Thread /\ On(x)
        BY DEF AllOn
      <3> QED BY <2>1, <2>2, <2>3, <3>1
    <2> QED BY <2>4, <2>5 DEF AllOn
  <1>10. Proper(L1)'
    <2>1. ASSUME NEW x \in Thread, x # t
          PROVE  /\ ~(pc'[x] \in {"optimize", "removeNewest"})
                 /\ pc'[x] = "idle" => next'[x] = Null /\ spinning'[x]
      <3>1. ~Owner(x) /\ pc'[x] = pc[x]
        BY <1>7, <2>1
      <3>2. pc'[x] = "idle" => x \notin L
        BY <3>1, NotOn DEF On
      <3>3. pc[x] = "idle" => next[x] = Null /\ spinning[x]
        BY DEF Proper
      <3>4. pc'[x] = "idle" => next'[x] = next[x]
        BY <1>2, <3>2
      <3> QED BY <3>1, <3>3, <3>4 DEF Owner
    <2> QED BY <1>7, <2>1 DEF Proper
  <1> QED BY <1>3, <1>4, <1>5, <1>6, <1>9, <1>10

\* The number of those on the list.
LEMMA ListNumber ==
  ASSUME LinksOK, NEW L, NEW pos \in [Thread -> Nat], NEW m, Lists(L, pos, m), NEW t
  PROVE  List = L /\ Cardinality(List) \in Nat /\ Cardinality(List \ {t}) \in Nat
  <1>1. List = L /\ IsFiniteSet(L) /\ Cardinality(List) \in Nat
    BY ListIs
  <1>2. IsFiniteSet(L \ {t})
    BY <1>1, FS_RemoveElement
  <1> QED BY <1>1, <1>2, FS_CardinalityType

LEMMA HeldWakeSingle ==
  ASSUME OfThreads, NEW L \in SUBSET Thread, NEW T \in [Thread -> SUBSET Thread],
         NEW pos \in [Thread -> Nat], NEW r \in [Thread -> Nat], NEW m \in Block, Holds(L, T, pos, r, m),
         NEW t \in Thread, WakeSingle(t)
  PROVE  LET waits == word = Empty \/ word.count = WakeMask \/ word.locked \/ word.block = t IN
         /\ waits => Moved(L, T, pos)
         /\ ~waits => Moved(L \ {t}, T, pos)
  <1>1. pc[t] = "single" /\ UNCHANGED <<spinning, call, pWake>>
    BY DEF WakeSingle
  <1>2. call[t] = "sleep" /\ pWake[t] = Null /\ ~Owner(t)
    BY <1>1 DEF OfThreads, LocalInv, LocalAt, Sleeping, Owner
  <1>3. T[t] = {} /\ Cardinality(T[t]) = 0 /\ Own(t) = 0
    BY <1>2, TakenIs DEF Holds, Own
  <1>4. word.locked \in BOOLEAN
    BY WordsAre DEF OfThreads
  <1>5. owed \in Nat /\ forgotten \in Nat
    BY DEF Holds, Counts
  \* The block will be woken, or its wake-up is left to the owner.
  <1>6. CASE \/ word = Empty \/ word.count = WakeMask
             \/ word.locked
    <2>1. /\ word'.block = word.block /\ word'.locked = word.locked /\ Current' = Current
          /\ UNCHANGED <<links, then>> /\ pc' = [pc EXCEPT ![t] = "kernelAgain"]
      BY <1>6 DEF WakeSingle, Goto, OfThreads, TypeOK, Words
    <2>2. (\A x \in Thread : x # t => pc'[x] = pc[x]) /\ pc'[t] = "kernelAgain"
      BY <2>1 DEF OfThreads, TypeOK
    <2>3. LinksOK' /\ Lists(L, pos, m)' /\ Takes(T, r)' /\ Apart(L, T)'
      BY <1>1, <2>1, ListsSame, TakesSame DEF Holds, LinksOK, links, Apart
    <2>4. AllOn(L, T)'
      <3>1. \A x \in Thread : On(x) => On(x)'
        BY <1>1, <2>1, <2>2 DEF On
      <3> QED BY <3>1, AllOnSame DEF Holds
    <2>5. Proper(L)'
      BY <1>1, <2>1, <2>2 DEF Holds, Proper, links
    <2>6. Counts(T)'
      <3>1. \A o \in Thread : Owner(o)' => Owner(o) /\ call'[o] = call[o]
        BY <1>1, <2>2 DEF Owner
      <3>2. CASE word' = word /\ UNCHANGED ghosts
        BY <2>1, <3>1, <3>2, CountsSame DEF Holds
      <3>3. CASE word'.count = WakeMask /\ word.locked /\ Owe(Cardinality(List), Cardinality(List))
        <4>1. Cardinality(List) \in Nat
          BY ListIs DEF Holds
        <4>2. owed' \in Nat /\ forgotten' \in Nat
          BY <1>5, <3>3, <4>1, OweIs
        <4>3. ASSUME NEW o \in Thread, Owner(o)'
              PROVE  Cardinality(T[o]) <= Current'.count + Own(o)'
          BY <2>1, <3>1, <4>3 DEF Holds, Counts, Own
        <4> QED BY <2>1, <3>3, <4>2, <4>3 DEF Counts
      <3>4. (word' = word /\ UNCHANGED ghosts)
            \/ (word'.count = WakeMask /\ word.locked /\ Owe(Cardinality(List), Cardinality(List)))
        BY <1>6 DEF WakeSingle, OfThreads, TypeOK, Words
      <3> QED BY <3>2, <3>3, <3>4
    <2>7. Holds(L, T, pos, r, m)'
      BY <2>3, <2>4, <2>5, <2>6 DEF Holds
    <2> QED BY <1>6, <2>7 DEF Moved
  <1>7. CASE ~word.locked /\ word # Empty /\ word.count # WakeMask
    <2>1. /\ word'.block = word.block /\ word'.locked /\ word'.count = word.count /\ Current' = word'
      BY <1>7 DEF WakeSingle, OfThreads, TypeOK, Words
    <2>2. word.count = 0 /\ word.block # Null /\ owed <= forgotten /\ \A x \in Thread : ~Owner(x)
      BY <1>7 DEF OfThreads, OwnerInv, Holds, Counts
    <2>a. Ordered(back, L, word.block, pos) /\ L # {} /\ word.block \in L
      BY <2>2 DEF Holds, Lists, ListedAt, Ordered
    \* Counts of the new owner.
    <2>3. ASSUME owed' \in Nat, forgotten' \in Nat, owed' <= forgotten', \A x \in Thread : x # t => pc'[x] = pc[x]
          PROVE  Counts(T)'
      <3>1. \A x \in Thread : Owner(x)' => x = t
        BY <2>2, <2>3 DEF Owner
      <3>2. Own(t)' = 0
        BY <1>1, <1>2 DEF Own
      <3>3. Cardinality(T[t]) <= Current'.count + Own(t)'
        BY <1>3, <2>1, <2>2, <3>2
      <3>4. owed' <= forgotten' + (word'.count + Own(t)' - Cardinality(T[t]))
        <4>1. word'.count + Own(t)' - Cardinality(T[t]) = 0
          BY <1>3, <2>1, <2>2, <3>2
        <4> QED BY <2>3, <4>1
      <3> QED BY <2>1, <2>3, <3>1, <3>3, <3>4 DEF Counts
    <2>4. CASE word.block = t
      <3>1. UNCHANGED <<links, then, ghosts>> /\ pc' = [pc EXCEPT ![t] = "removeNewest"]
        BY <1>7, <2>4 DEF WakeSingle, Goto
      <3>2. (\A x \in Thread : x # t => pc'[x] = pc[x]) /\ pc'[t] = "removeNewest"
        BY <3>1 DEF OfThreads, TypeOK
      <3>3. LinksOK' /\ Takes(T, r)' /\ Apart(L, T)'
        BY <1>1, <3>1, TakesSame DEF Holds, LinksOK, links, Apart
      <3>4. Lists(L, pos, m)'
        BY <2>1, <2>2, <3>1, ListsLock DEF Holds
      <3>5. AllOn(L, T)'
        <4>1. \A x \in Thread : On(x) => On(x)'
          BY <1>1, <3>1, <3>2 DEF On
        <4> QED BY <4>1, AllOnSame DEF Holds
      <3>6. Proper(L)'
        BY <1>1, <2>a, <2>4, <3>1, <3>2 DEF Holds, Proper, links
      <3>7. Counts(T)'
        BY <1>5, <2>2, <2>3, <3>1, <3>2 DEF ghosts
      <3>8. Holds(L, T, pos, r, m)'
        BY <3>3, <3>4, <3>5, <3>6, <3>7 DEF Holds
      <3> QED BY <2>4, <3>8 DEF Moved
    <2>5. CASE word.block # t
      <3>1. PICK h : h = word.block
        OBVIOUS
      <3>2. List = L /\ Cardinality(List \ {t}) \in Nat
        BY ListNumber DEF Holds
      <3>3. Unlink(h, t) /\ LeaveAfterWaking(t, t \in L) /\ Owe(owed, Cardinality(List \ {t}))
        BY <1>7, <2>5, <3>1, <3>2 DEF WakeSingle
      <3>4. owed' \in Nat /\ forgotten' \in Nat /\ owed' <= forgotten'
        <4>1. owed \in Int
          BY <1>5
        <4> QED BY <1>5, <2>2, <3>2, <3>3, <4>1, OweIs
      <3>5. \A x \in Thread : x # t => pc'[x] = pc[x]
        BY <3>3 DEF LeaveAfterWaking, Goto, OfThreads, TypeOK
      <3>6. Counts(T)'
        BY <2>3, <3>4, <3>5
      <3>7. Ordered(back, L, h, pos) /\ word'.block = h /\ Current'.block = h /\ t # h /\ h \in Block
        BY <2>1, <2>a, <2>5, <3>1, WordsAre DEF OfThreads
      <3>8. L \in SUBSET L /\ L # {}
        BY <2>a
      <3>9. Holds(L \ {t}, T, pos, r, h)'
        BY <1>1, <2>2, <3>3, <3>6, <3>7, <3>8, HoldsUnlinked
      <3>10. L \ {t} \in SUBSET Thread
        OBVIOUS
      <3> QED BY <1>7, <2>5, <3>7, <3>9, <3>10 DEF Moved
    <2> QED BY <2>4, <2>5
  <1> QED BY <1>4, <1>6, <1>7

LEMMA AtMostPlusNone ==
  ASSUME NEW a \in Nat, NEW b \in Nat, a <= b, NEW k, k = 0
  PROVE  a <= b + k /\ k \in Nat
  OBVIOUS

LEMMA HeldRemoveNewest ==
  ASSUME OfThreads, NEW L \in SUBSET Thread, NEW T \in [Thread -> SUBSET Thread],
         NEW pos \in [Thread -> Nat], NEW r \in [Thread -> Nat], NEW m \in Block, Holds(L, T, pos, r, m),
         NEW t \in Thread, RemoveNewest(t)
  PROVE  /\ word # Current /\ word.block = t => Moved(L, T, pos)
         /\ word = Current \/ word.block # t => Moved(L \ {t}, T, pos)
  <1>1. pc[t] = "removeNewest" /\ Owner(t) /\ UNCHANGED pWake
    BY DEF RemoveNewest, Owner
  <1>2. call[t] = "sleep" /\ pWake[t] = Null /\ Current.block = t /\ t \in L
    BY <1>1 DEF OfThreads, LocalInv, LocalAt, Sleeping, OwnerInv, Holds, Proper
  <1>3. T[t] = {} /\ Cardinality(T[t]) = 0 /\ Own(t) = 0
    BY <1>2, TakenIs DEF Holds, Own
  <1>4. word.locked /\ \A x \in Thread : Owner(x) => x = t
    BY <1>1, OnlyOwner
  <1>5. /\ owed \in Nat /\ forgotten \in Nat /\ word.count \in Nat /\ word.block \in Block
        /\ word.count # WakeMask => owed <= forgotten + word.count
    <2>1. /\ owed \in Nat /\ forgotten \in Nat
          /\ word.count # WakeMask => owed <= forgotten + (word.count + Own(t) - Cardinality(T[t]))
      BY <1>1 DEF Holds, Counts
    <2> QED BY <1>3, <2>1, WordsAre DEF OfThreads
  <1>6. List = L /\ Cardinality(List \ {t}) \in Nat
    BY ListNumber DEF Holds
  <1>7. Ordered(back, L, word.block, pos) /\ L # {} /\ word.block # Null /\ t # Null
    BY <1>2, NullIsNoThread DEF Holds, Lists, ListedAt, Ordered
  \* Counts of the owner, who is not done yet.
  <1>8. ASSUME word'.locked, Current'.count \in Nat, word'.count \in Nat, owed' \in Nat, forgotten' \in Nat,
               word'.count # WakeMask => owed' <= forgotten' + word'.count,
               call'[t] = call[t], \A x \in Thread : x # t => pc'[x] = pc[x]
        PROVE  Counts(T)'
    <2>1. \A x \in Thread : Owner(x)' => x = t
      BY <1>4, <1>8 DEF Owner
    <2>2. Own(t)' = 0
      BY <1>2, <1>8 DEF Own
    <2>3. Cardinality(T[t]) <= Current'.count + Own(t)'
      BY <1>3, <1>8, <2>2
    <2>4. word'.count # WakeMask => owed' <= forgotten' + (word'.count + Own(t)' - Cardinality(T[t]))
      BY <1>3, <1>8, <2>2
    <2> QED BY <1>8, <2>1, <2>3, <2>4 DEF Counts
  <1>9. CASE word # Current /\ word.block = t
    <2>1. /\ Current' = word /\ word' = word /\ UNCHANGED <<pc, links, then, ghosts, spinning, call>>
      BY <1>9 DEF RemoveNewest
    <2>2. LinksOK' /\ Takes(T, r)' /\ Apart(L, T)'
      BY <1>1, <2>1, TakesSame DEF Holds, LinksOK, links, Apart
    <2>3. Lists(L, pos, m)'
      BY <1>7, <2>1, ListsLock DEF Holds
    <2>4. AllOn(L, T)'
      <3>1. \A x \in Thread : On(x) => On(x)'
        BY <2>1 DEF On
      <3> QED BY <3>1, AllOnSame DEF Holds
    <2>5. Proper(L)'
      BY <2>1 DEF Holds, Proper, links
    <2>6. Counts(T)'
      BY <1>4, <1>5, <1>8, <2>1 DEF ghosts
    <2>7. Holds(L, T, pos, r, m)'
      BY <2>2, <2>3, <2>4, <2>5, <2>6 DEF Holds
    <2> QED BY <1>9, <2>7 DEF Moved
  <1>10. CASE word # Current /\ word.block # t
    <2>1. PICK h : h = word.block
      OBVIOUS
    <2>2. /\ Current' = word /\ word' = word /\ UNCHANGED <<spinning, call>>
          /\ Unlink(h, t) /\ LeaveAfterWaking(t, t \in L) /\ Owe(owed, Cardinality(List \ {t}))
      BY <1>2, <1>10, <2>1 DEF RemoveNewest
    <2>3. (\A x \in Thread : x # t => pc'[x] = pc[x])
      BY <2>2 DEF LeaveAfterWaking, Goto, OfThreads, TypeOK
    <2>4. /\ owed' \in Nat /\ forgotten' \in Nat
          /\ word.count # WakeMask => owed' <= forgotten' + word.count
      <3>1. owed \in Int
        BY <1>5
      <3> QED BY <1>5, <1>6, <2>2, <3>1, OweIs
    <2>5. Counts(T)'
      BY <1>4, <1>5, <1>8, <2>2, <2>3, <2>4
    <2>6. Ordered(back, L, h, pos) /\ word'.block = h /\ Current'.block = h /\ t # h /\ h \in Block
      BY <1>5, <1>7, <1>10, <2>1, <2>2
    <2>7. L \in SUBSET L /\ L \ {t} \in SUBSET Thread /\ UNCHANGED <<spinning, call, pWake>>
      BY <1>1, <2>2
    <2>8. Holds(L \ {t}, T, pos, r, h)'
      BY <1>1, <1>4, <1>7, <2>2, <2>5, <2>6, <2>7, HoldsUnlinked
    <2> QED BY <1>10, <2>6, <2>7, <2>8 DEF Moved
  <1>11. ASSUME word = Current
         PROVE  /\ Ordered(back, L, t, pos) /\ Ordered(back, L \ {t}, back[t], pos) /\ back[t] \in Block
    <2>1. Ordered(back, L, t, pos) /\ back \in [Thread -> Block]
      BY <1>2, <1>7, <1>11 DEF Holds, LinksOK
    <2> QED BY <1>7, <2>1, OrderedPop
  <1>12. CASE word = Current /\ back[t] = Null
    <2>1. word' = Empty /\ Current' = Empty /\ Return(t) /\ Owe(owed, 0)
      BY <1>12 DEF RemoveNewest
    <2>2. L \ {t} = {}
      BY <1>11, <1>12 DEF Ordered
    <2>3. LinksOK /\ TypeOK /\ \A u \in Thread : t \notin T[u]
      BY <1>2 DEF OfThreads, Holds, Apart
    <2>4. LinksOK'
      BY <1>1, <2>1, <2>3, ReturnIs DEF LinksOK
    <2>5. Lists({}, pos, m)'
      BY <2>1, ListedNone DEF Lists
    <2>6. Takes(T, r)'
      BY <1>1, <2>1, <2>3, ReturnIs, TakesSame DEF Holds
    <2>7. Apart({}, T)'
      BY DEF Holds, Apart
    <2>8. AllOn({}, T)'
      <3>1. \A x \in Thread : x # t => (On(x) => On(x)')
        BY <2>1, <2>3, ReturnIs, OnSame
      <3>2. \A u \in Thread : \A x \in T[u] : x \in Thread /\ x # t /\ On(x)
        BY <2>3 DEF Holds, AllOn
      <3> QED BY <3>1, <3>2 DEF AllOn
    <2>9. (\A x \in Thread : x # t => pc'[x] = pc[x]) /\ pc'[t] = "idle"
      BY <2>1, <2>3, ReturnIs
    <2>10. Proper({})'
      <3>1. ASSUME NEW x \in Thread, x # t
            PROVE  pc'[x] \notin {"optimize", "removeNewest"} /\ (pc'[x] = "idle" => next'[x] = Null /\ spinning'[x])
        BY <1>4, <2>1, <2>3, <3>1, ReturnIs DEF Owner, Holds, Proper
      <3>2. pc'[t] = "idle" /\ next'[t] = Null /\ spinning'[t]
        BY <2>1, <2>3, ReturnIs
      <3> QED BY <3>1, <3>2 DEF Proper
    <2>11. Counts(T)'
      <3>1. owed' \in Nat /\ forgotten' \in Nat /\ owed' <= 0
        <4>1. owed \in Int
          BY <1>5
        <4> QED BY <1>5, <2>1, <4>1, OweIs
      <3>2. \A o \in Thread : ~Owner(o)'
        BY <1>4, <2>9 DEF Owner
      <3> QED BY <3>1, <3>2 DEF Counts
    <2>12. Holds({}, T, pos, r, m)'
      BY <2>4, <2>5, <2>6, <2>7, <2>8, <2>10, <2>11 DEF Holds
    <2> QED BY <1>12, <2>2, <2>12 DEF Moved
  <1>13. CASE word = Current /\ back[t] # Null
    <2>1. PICK h : h = back[t]
      OBVIOUS
    <2>2. /\ word' = Word(h, TRUE, 0) /\ Current' = word' /\ UNCHANGED <<spinning, call>>
          /\ Unlink(h, t) /\ LeaveAfterWaking(t, t \in L)
          /\ owed' = Least(owed, Cardinality(List \ {t}))
          /\ forgotten' = IF word.count = WakeMask THEN owed' ELSE Least(forgotten + word.count, owed')
      BY <1>2, <1>13, <2>1 DEF RemoveNewest
    <2>3. (\A x \in Thread : x # t => pc'[x] = pc[x])
      BY <2>2 DEF LeaveAfterWaking, Goto, OfThreads, TypeOK
    <2>4. owed' \in Nat /\ forgotten' \in Nat /\ owed' <= forgotten'
      <3> DEFINE n == Cardinality(List \ {t})
      <3>1. n \in Nat
        BY <1>6
      <3>2. owed' = Least(owed, n)
        BY <2>2
      <3> HIDE DEF n
      <3>3. owed' \in Nat /\ owed' <= owed
        BY <1>5, <3>1, <3>2 DEF Least
      <3>4. CASE word.count = WakeMask
        BY <2>2, <3>3, <3>4
      <3>5. CASE word.count # WakeMask
        <4>1. owed' <= forgotten + word.count /\ forgotten' = Least(forgotten + word.count, owed')
          BY <1>5, <2>2, <3>3, <3>5
        <4> QED BY <1>5, <3>3, <4>1 DEF Least
      <3> QED BY <3>4, <3>5
    <2>5. word'.locked /\ word'.count = 0 /\ Current'.count = 0 /\ word'.block = h /\ Current'.block = h
      BY <2>2 DEF Word
    <2>6. Counts(T)'
      <3>1. owed' <= forgotten' + word'.count /\ word'.count \in Nat
        BY <2>4, <2>5, AtMostPlusNone
      <3>2. Current'.count \in Nat
        BY <2>5
      <3> QED BY <1>8, <2>2, <2>3, <2>4, <2>5, <3>1, <3>2
    <2> DEFINE S == L \ {t}
    <2>7. Ordered(back, S, h, pos) /\ h \in Block /\ S \in SUBSET L /\ S \in SUBSET Thread /\ S \ {t} = L \ {t}
      BY <1>11, <1>13, <2>1
    <2>8. S # {} /\ t # h
      BY <1>13, <2>1, <2>7 DEF Ordered
    <2>9. UNCHANGED <<spinning, call, pWake>>
      BY <1>1, <2>2
    <2>10. Holds(L \ {t}, T, pos, r, h)'
      <3> HIDE DEF S
      <3> QED BY <1>1, <1>4, <2>2, <2>5, <2>6, <2>7, <2>8, <2>9, HoldsUnlinked
    <2> QED BY <1>13, <2>7, <2>10 DEF Moved
  <1> QED BY <1>9, <1>10, <1>12, <1>13

-----------------------------------------------------------------------------
(* The invariant, and what follows from it.                                *)

LEMMA InitIInv ==
  ASSUME Init
  PROVE  IInv
  <1>1. OfThreads
    <2>1. TypeOK
      BY WordType DEF Init, TypeOK, Places
    <2>2. LocalInv
      BY DEF Init, LocalInv, LocalAt, Sleeping
    <2>3. OwnerInv
      BY DEF Init, OwnerInv, Owner, Empty, Word
    <2> QED BY <2>1, <2>2, <2>3 DEF OfThreads
  <1>2. Held
    <2> DEFINE T == [t \in Thread |-> {}]
               pos == [t \in Thread |-> 0]
    <2>1. LinksOK
      BY DEF Init, LinksOK, Block
    <2>2. Lists({}, pos, Null)
      BY ListedNone DEF Init, Lists
    <2>3. Takes(T, pos)
      <3>1. \A t \in Thread : T[t] = {} /\ pWake[t] = Null
        BY DEF Init
      <3> HIDE DEF T
      <3> QED BY <3>1, OrderedNone DEF Takes
    <2>4. Apart({}, T) /\ AllOn({}, T)
      BY DEF Apart, AllOn
    <2>5. Proper({})
      BY DEF Init, Proper
    <2>6. Counts(T)
      BY DEF Init, Counts, Owner, Empty, Word
    <2>7. Holds({}, T, pos, pos, Null)
      <3> HIDE DEF T, pos
      <3> QED BY <2>1, <2>2, <2>3, <2>4, <2>5, <2>6 DEF Holds
    <2>8. T \in [Thread -> SUBSET Thread] /\ pos \in [Thread -> Nat] /\ Null \in Block
      BY DEF Block
    <2> HIDE DEF T, pos
    <2> QED BY <2>7, <2>8 DEF Held
  <1> QED BY <1>1, <1>2 DEF IInv

LEMMA MovedHeld ==
  ASSUME NEW L, NEW T, NEW pos, Moved(L, T, pos)
  PROVE  Held'
  BY DEF Moved, Held

LEMMA HeldStep ==
  ASSUME OfThreads, Held, NEW t \in Thread, Acts(t)
  PROVE  Held'
  <1>1. PICK L \in SUBSET Thread, T \in [Thread -> SUBSET Thread], pos \in [Thread -> Nat], r \in [Thread -> Nat],
             m \in Block : Holds(L, T, pos, r, m)
    BY DEF Held
  <1>2. \/ Sleep(t) \/ WakeConditionVariable(t) \/ WakeAllConditionVariable(t)
        \/ TimeOut(t) \/ Inside(t)
    BY DEF Acts
  <1>3. CASE Sleep(t)
    BY <1>1, <1>3, HeldSleep, MovedHeld DEF Arrived
  <1>4. CASE WakeConditionVariable(t)
    <2>1. Holds(L, T, pos, r, m)'
      BY <1>1, <1>4, HoldsWake
    <2> QED BY <2>1 DEF Held
  <1>5. CASE WakeAllConditionVariable(t)
    BY <1>1, <1>5, HeldWakeAll, MovedHeld
  <1>6. CASE TimeOut(t)
    <2>1. Holds(L, T, pos, r, m)'
      BY <1>1, <1>6, HoldsTimeOut
    <2> QED BY <2>1 DEF Held
  <1>7. CASE Optimize(t)
    BY <1>1, <1>7, HeldOptimize, MovedHeld
  <1>8. CASE Spin(t)
    <2>1. Holds(L, T, pos, r, m)'
      BY <1>1, <1>8, HoldsSpin
    <2> QED BY <2>1 DEF Held
  <1>9. CASE WakeSingle(t)
    BY <1>1, <1>9, HeldWakeSingle, MovedHeld
  <1>10. CASE RemoveNewest(t)
    BY <1>1, <1>10, HeldRemoveNewest, MovedHeld
  <1>11. CASE TakeAll(t)
    BY <1>1, <1>11, HeldTakeAll, MovedHeld
  <1>12. CASE TakeOldest(t)
    BY <1>1, <1>12, HeldTakeOldest, MovedHeld
  <1>13. CASE TakeLast(t)
    <2>1. CASE word # Current
      BY <1>1, <1>13, <2>1, HeldTakeLast, MovedHeld
    <2>2. CASE word = Current
      <3>1. PICK o : L = {o} /\ Moved(L \ {o}, [T EXCEPT ![t] = T[t] \cup {o}], pos)
        BY <1>1, <1>13, <2>2, HeldTakeLast
      <3> QED BY <3>1, MovedHeld
    <2> QED BY <2>1, <2>2
  <1>14. CASE Unlock(t)
    BY <1>1, <1>14, HeldUnlock, MovedHeld
  <1>15. CASE Release(t)
    <2>1. PICK T1 : T1 = [T EXCEPT ![t] = T[t] \ {pWake[t]}]
      OBVIOUS
    <2>2. Holds(L, T1, pos, r, m)'
      BY <1>1, <1>15, <2>1, HoldsRelease
    <2>3. T1 \in [Thread -> SUBSET Thread]
      BY <2>1
    <2> QED BY <2>2, <2>3 DEF Held
  <1>16. CASE Released(t)
    <2>1. Holds(L, T, pos, r, m)'
      BY <1>1, <1>16, HoldsReleased
    <2> QED BY <2>1 DEF Held
  <1> QED BY <1>2, <1>3, <1>4, <1>5, <1>6, <1>7, <1>8, <1>9, <1>10, <1>11, <1>12, <1>13, <1>14, <1>15, <1>16 DEF Inside

LEMMA IInvStep ==
  ASSUME IInv, NEW t \in Thread, Acts(t)
  PROVE  IInv'
  <1>1. LinksOK
    BY DEF IInv, Held, Holds
  <1> QED BY <1>1, OfThreadsStep, HeldStep DEF IInv

LEMMA IInvStutters ==
  ASSUME IInv, UNCHANGED vars
  PROVE  IInv'
  <1>1. UNCHANGED <<word, back, notify, next, spinning, pc, call, then, Current, pWake, owed, forgotten>>
    BY DEF vars, links, ghosts
  <1>2. OfThreads'
    BY <1>1 DEF IInv, OfThreads, TypeOK, LocalInv, LocalAt, OwnerInv, Owner
  <1>3. Held'
    <2>1. PICK L \in SUBSET Thread, T \in [Thread -> SUBSET Thread], pos \in [Thread -> Nat], r \in [Thread -> Nat],
               m \in Block : Holds(L, T, pos, r, m)
      BY DEF IInv, Held
    <2>2. Lists(L, pos, m)'
      BY <1>1, <2>1 DEF Holds, Lists
    <2>3. Takes(T, r)' /\ Apart(L, T)' /\ LinksOK'
      BY <1>1, <2>1 DEF Holds, Takes, Apart, LinksOK
    <2>4. AllOn(L, T)'
      BY <1>1, <2>1 DEF Holds, AllOn, On
    <2>5. Proper(L)' /\ Counts(T)'
      BY <1>1, <2>1 DEF Holds, Proper, Counts, Owner, Own
    <2>6. Holds(L, T, pos, r, m)'
      BY <2>2, <2>3, <2>4, <2>5 DEF Holds
    <2> QED BY <2>6 DEF Held
  <1> QED BY <1>2, <1>3 DEF IInv

\* But for a missed release that meets another wait, a step is one of those of a
\* thread whose releases are all met; and nothing comes after that.
LEMMA NextActs ==
  ASSUME Next
  PROVE  ~misled /\ (misled' \/ \E t \in Thread : Acts(t))
  BY DEF Next, Miss, Meet, Acts, Inside

\* No wake-up that was called for while the list was locked is left behind.
LEMMA IInvWakesKept ==
  ASSUME IInv
  PROVE  WakesKeptButForgotten
  BY DEF IInv, Held, Holds, Counts, WakesKeptButForgotten

\* No block dies while somebody can still reach it.
LEMMA IInvNoDeadBlock ==
  ASSUME IInv
  PROVE  NoDeadBlock
  <1>1. PICK L \in SUBSET Thread, T \in [Thread -> SUBSET Thread], pos \in [Thread -> Nat], r \in [Thread -> Nat],
             m \in Block : Holds(L, T, pos, r, m)
    BY DEF IInv, Held
  <1>2. List = L
    BY <1>1, ListIs DEF Holds
  <1>3. \A t \in Thread : Taken(t) = T[t]
    BY <1>1, TakenIs DEF Holds
  <1>4. ASSUME NEW b \in Thread, On(b)
        PROVE  call[b] = "sleep"
    BY <1>4 DEF On, IInv, OfThreads, LocalInv, LocalAt, Sleeping
  <1>5. \A b \in L : call[b] = "sleep"
    BY <1>1, <1>4 DEF Holds, AllOn
  <1>6. \A t \in Thread : \A b \in T[t] : call[b] = "sleep" /\ b \notin L
    BY <1>1, <1>4 DEF Holds, AllOn, Apart
  <1>7. \A t, u \in Thread : t # u => T[t] \cap T[u] = {}
    BY <1>1 DEF Holds, Apart
  <1> QED BY <1>2, <1>3, <1>5, <1>6, <1>7 DEF NoDeadBlock

\* The list, the blocks taken and the count of wake-ups owed agree at every step (synch.hpp:417-653),
\* also while releases wait for threads that have left (165-168, 189-190), until one meets another wait.
THEOREM Invariance == Spec => [](misled \/ IInv)
  <1>1. Init => IInv
    BY InitIInv
  <1>2. (misled \/ IInv) /\ [Next]_<<vars, late>> => (misled \/ IInv)'
    <2>1. CASE Next
      BY <2>1, NextActs, IInvStep
    <2>2. CASE UNCHANGED <<vars, late>>
      BY <2>2, IInvStutters DEF late
    <2> QED BY <2>1, <2>2
  <1> QED BY <1>1, <1>2, PTL DEF Spec

\* A block on the list or in a waker's hands belongs to a thread still inside SleepConditionVariable, and to
\* one of them only (synch.hpp:434-532).  And whoever unlocks the list has seen to the wake-ups called for while
\* it was locked, but those that RtlpWakeSingle has written over (synch.hpp:487-515, 619, 2431-2512).  The one
\* step after which that fails is a late release that meets a wait it was not meant for (165-168, 189-190).
THEOREM SleepersSafe == Spec => []BlocksAndWakesKept
  <1>1. misled \/ IInv => BlocksAndWakesKept
    BY IInvNoDeadBlock, IInvWakesKept DEF BlocksAndWakesKept
  <1> QED BY <1>1, Invariance, PTL
-----------------------------------------------------------------------------
(* WaitOnAddress: what each thread is doing, and who owns the list.        *)

Buckets == [block : Block, locked : BOOLEAN, wakeAll : BOOLEAN]
Waiting == [kind : {"wait"}, address : Address, timed : BOOLEAN, compared : BOOLEAN]
Waking1 == [kind : {"wake"}, address : Address, all : BOOLEAN, bNoRemove : BOOLEAN]
WaitCalls == {Waits!NoCall} \cup Waiting \cup Waking1

InWait == {"add", "look", "optimize", "compare", "spin", "kernel", "kernelAgain", "kernelLocked", "remove",
           "removeFirst", "notFound", "rejoin"}
InSleep == {"spin", "kernel", "kernelAgain", "kernelLocked", "remove", "removeFirst", "notFound", "rejoin"}
InWake == {"wake", "scan", "take", "releaseAll"}
InBoth == {"unlock", "wakeList", "release"}
InPlaces == {"idle"} \cup InWait \cup InWake \cup InBoth

BucketType ==
  /\ bucket \in Buckets /\ waitCurrent \in Buckets
  /\ flag \in [Thread -> {0, 1, 2, 4}]
  /\ waitPc \in [Thread -> InPlaces]
  /\ waitCall \in [Thread -> WaitCalls]
  /\ pBlock \in Block
  /\ pItem \in [Thread -> Block] /\ inHand \in [Thread -> Block] /\ LastWake \in [Thread -> Block]

WaitLinks ==
  waitBack \in [Thread -> Block] /\ waitNotify \in [Thread -> Block] /\ waitNext \in [Thread -> Block]

\* Where a thread is, p, goes with its call, its flag, and what it has in hand.
Fits(p, c, f, hand, last, item) ==
  /\ p = "idle" => c = Waits!NoCall
  /\ p \in InWait => c \in Waiting
  /\ p \in InWake => c \in Waking1
  /\ p \in InBoth => c \in Waiting \cup Waking1
  /\ p \in {"add", "look", "optimize"} => ~c.compared
  /\ p = "wake" => ~c.bNoRemove
  /\ p \in {"idle", "add"} => f = Waits!Spinning
  /\ p \in InSleep \/ (p = "unlock" /\ c \in Waiting) => c.compared
  /\ p \in {"look", "optimize", "compare", "spin"} => f \in {Waits!Spinning, Waits!Woken}
  /\ p \in {"wakeList", "release"} /\ c \in Waiting /\ ~c.compared => f \in {Waits!Spinning, Waits!Woken}
  /\ f = Waits!Kernel => p \in {"kernel", "kernelLocked"} \cup InBoth
  /\ hand # Null <=> p \in {"take", "release"}
  /\ last # Null => p \in {"scan", "take", "releaseAll"}
  /\ item # Null => p \in {"scan", "take", "releaseAll", "wakeList", "release"}
WaiterAt(t) == Fits(waitPc[t], waitCall[t], flag[t], inHand[t], LastWake[t], pItem[t])
WaiterInv == \A t \in Thread : WaiterAt(t)

\* The thread that has the list locked.
Locks(t) ==
  \/ waitPc[t] \in {"look", "optimize", "removeFirst", "notFound", "kernelLocked", "unlock"}
  \/ waitPc[t] \in {"scan", "take", "releaseAll"} /\ ~waitCall[t].bNoRemove

LocksInv ==
  /\ bucket.locked => bucket.block # Null
  /\ bucket.locked <=> \E t \in Thread : Locks(t)
  /\ \A t, u \in Thread : Locks(t) /\ Locks(u) => t = u
  /\ \A t \in Thread : waitPc[t] = "removeFirst" => waitCurrent.block = t

OfWaiters == BucketType /\ WaiterInv /\ LocksInv

LEMMA CallIs ==
  /\ Waits!NoCall.kind = "none"
  /\ \A c \in Waiting : c.kind = "wait" /\ c.timed \in BOOLEAN /\ c.compared \in BOOLEAN /\ c.address \in Address
  /\ \A c \in Waking1 : c.kind = "wake" /\ c.all \in BOOLEAN /\ c.bNoRemove \in BOOLEAN /\ c.address \in Address
  /\ \A c \in Waiting : /\ [c EXCEPT !.compared = TRUE] \in Waiting /\ [c EXCEPT !.compared = TRUE].compared
                           /\ [c EXCEPT !.timed = FALSE] \in Waiting /\ [c EXCEPT !.timed = FALSE].compared = c.compared
  /\ \A c \in Waking1, b \in BOOLEAN : [c EXCEPT !.bNoRemove = b] \in Waking1 /\ [c EXCEPT !.bNoRemove = b].bNoRemove = b
  BY DEF Waits!NoCall, Waiting, Waking1

LEMMA CallKinds ==
  ASSUME NEW c \in WaitCalls
  PROVE  /\ c.kind = "wait" <=> c \in Waiting
         /\ c.kind = "wake" <=> c \in Waking1
         /\ c.kind = "none" <=> c = Waits!NoCall
  BY CallIs DEF WaitCalls

LEMMA BucketIs ==
  ASSUME NEW w \in Buckets
  PROVE  /\ w.block \in Block /\ w.locked \in BOOLEAN /\ w.wakeAll \in BOOLEAN
         /\ \A b \in BOOLEAN : [w EXCEPT !.locked = b] \in Buckets /\ [w EXCEPT !.wakeAll = b] \in Buckets
         /\ \A b \in Block : [w EXCEPT !.block = b] \in Buckets
         /\ \A b \in BOOLEAN : [w EXCEPT !.locked = b].block = w.block /\ [w EXCEPT !.locked = b].locked = b
         /\ \A b \in BOOLEAN : [w EXCEPT !.wakeAll = b].block = w.block /\ [w EXCEPT !.wakeAll = b].locked = w.locked
         /\ \A b \in Block : [w EXCEPT !.block = b].block = b /\ [w EXCEPT !.block = b].locked = w.locked
  BY DEF Buckets

LEMMA BucketLocked ==
  ASSUME NEW w \in Buckets
  PROVE  /\ [w EXCEPT !.locked = TRUE] \in Buckets
         /\ [w EXCEPT !.locked = TRUE].block = w.block /\ [w EXCEPT !.locked = TRUE].locked = TRUE
  BY DEF Buckets

LEMMA BucketNew ==
  /\ \A b \in Block, l \in BOOLEAN, a \in BOOLEAN :
       Waits!Word(b, l, a) \in Buckets /\ Waits!Word(b, l, a).block = b /\ Waits!Word(b, l, a).locked = l
  /\ Waits!Empty \in Buckets /\ Waits!Empty.block = Null /\ ~Waits!Empty.locked
  BY DEF Buckets, Waits!Word, Waits!Empty, Block

\* Of the threads, only t changes, but for the flags.
Alone(t) ==
  \A u \in Thread : u # t =>
    /\ waitPc'[u] = waitPc[u] /\ waitCall'[u] = waitCall[u]
    /\ inHand'[u] = inHand[u] /\ LastWake'[u] = LastWake[u] /\ pItem'[u] = pItem[u]
FlagsBut(b) == \A u \in Thread : u # b => flag'[u] = flag[u]
Gets(t, p, c, f, hand, last, item) ==
  /\ waitPc'[t] = p /\ waitCall'[t] = c /\ flag'[t] = f
  /\ inHand'[t] = hand /\ LastWake'[t] = last /\ pItem'[t] = item

\* What t does to its locals.
Does(t, p, c, f, hand, last, item) ==
  /\ bucket' \in Buckets /\ waitCurrent' \in Buckets /\ pBlock' \in Block
  /\ waitPc' = [waitPc EXCEPT ![t] = p] /\ waitCall' = [waitCall EXCEPT ![t] = c] /\ flag' = [flag EXCEPT ![t] = f]
  /\ inHand' = [inHand EXCEPT ![t] = hand] /\ LastWake' = [LastWake EXCEPT ![t] = last]
  /\ pItem' = [pItem EXCEPT ![t] = item]

LEMMA DoesIs ==
  ASSUME BucketType, WaiterInv, NEW t \in Thread,
         NEW p \in InPlaces, NEW c \in WaitCalls, NEW f \in {0, 1, 2, 4},
         NEW hand \in Block, NEW last \in Block, NEW item \in Block,
         Does(t, p, c, f, hand, last, item), Fits(p, c, f, hand, last, item)
  PROVE  BucketType' /\ WaiterInv' /\ Alone(t) /\ FlagsBut(t) /\ Gets(t, p, c, f, hand, last, item)
  <1>1. BucketType'
    BY DEF Does, BucketType
  <1>2. Alone(t) /\ FlagsBut(t)
    BY DEF Does, BucketType, Alone, FlagsBut
  <1>3. Gets(t, p, c, f, hand, last, item)
    BY DEF Does, BucketType, Gets
  <1>4. WaiterInv'
    BY <1>2, <1>3 DEF Alone, FlagsBut, Gets, WaiterInv, WaiterAt
  <1> QED BY <1>1, <1>2, <1>3, <1>4

\* A step of t leaves the lock as it is, takes it, or gives it up.
LEMMA LocksKept ==
  ASSUME LocksInv, NEW t \in Thread, Alone(t), Locks(t)' <=> Locks(t), bucket'.locked <=> bucket.locked,
         bucket'.block # Null \/ bucket'.block = bucket.block,
         waitPc'[t] = "removeFirst" => waitCurrent'.block = t, Locks(t) \/ waitCurrent' = waitCurrent
  PROVE  LocksInv'
  BY DEF LocksInv, Locks, Alone

LEMMA LocksTaken ==
  ASSUME LocksInv, NEW t \in Thread, Alone(t), Locks(t)', ~bucket.locked, bucket'.locked, bucket'.block # Null,
         waitPc'[t] = "removeFirst" => waitCurrent'.block = t
  PROVE  LocksInv'
  BY DEF LocksInv, Locks, Alone

LEMMA LocksLeft ==
  ASSUME LocksInv, NEW t \in Thread, Alone(t), Locks(t), ~Locks(t)', ~bucket'.locked
  PROVE  LocksInv'
  BY DEF LocksInv, Locks, Alone

\* What a thread does in each step, but to the links.
LEMMA LookDoes ==
  ASSUME OfWaiters, NEW t \in Thread, Waits!Look(t)
  PROVE  OfWaiters' /\ Alone(t) /\ FlagsBut(t) /\ Gets(t, "optimize", waitCall[t], flag[t], inHand[t], LastWake[t], pItem[t])
  <1> USE DEF OfWaiters
  <1>1. waitPc[t] = "look" /\ WaiterAt(t) /\ waitCall[t] \in WaitCalls /\ flag[t] \in {0, 1, 2, 4}
    BY DEF Waits!Look, WaiterInv, BucketType
  <1>2. Does(t, "optimize", waitCall[t], flag[t], inHand[t], LastWake[t], pItem[t])
    BY BucketIs DEF Waits!Look, Waits!Goto, Does, BucketType, Waits!block, Waits!walk, Waits!owner, Waits!links
  <1>3. Fits("optimize", waitCall[t], flag[t], inHand[t], LastWake[t], pItem[t])
    BY <1>1, CallIs DEF WaiterAt, Fits, InWait, InSleep, InWake, InBoth, Waits!Spinning, Waits!Kernel, Waits!Woken, Waits!TimedOut
  <1>4. "optimize" \in InPlaces /\ waitCall[t] \in WaitCalls /\ flag[t] \in {0, 1, 2, 4}
    BY <1>1, CallIs DEF WaiterAt, Fits, InPlaces, InWait, InSleep, InWake, InBoth, WaitCalls, Waits!Spinning, Waits!Kernel, Waits!Woken, Waits!TimedOut
  <1>5. inHand[t] \in Block /\ LastWake[t] \in Block /\ pItem[t] \in Block
    BY DEF BucketType
  <1>6. BucketType' /\ WaiterInv' /\ Alone(t) /\ FlagsBut(t) /\ Gets(t, "optimize", waitCall[t], flag[t], inHand[t], LastWake[t], pItem[t])
    BY <1>2, <1>3, <1>4, <1>5, DoesIs
  <1>7. LocksInv'
    BY <1>1, <1>6, LocksKept, BucketIs DEF Waits!Look, Gets, BucketType, Locks, Waits!owner, Waits!block
  <1> QED BY <1>6, <1>7

LEMMA CompareDoes ==
  ASSUME OfWaiters, NEW t \in Thread, Waits!Compare(t)
  PROVE  OfWaiters' /\ Alone(t) /\ FlagsBut(t) /\ Gets(t, IF changed[t] THEN "remove" ELSE "spin", [waitCall[t] EXCEPT !.compared = TRUE], flag[t], inHand[t], LastWake[t], pItem[t])
  <1> USE DEF OfWaiters
  <1>p. PICK p : p = IF changed[t] THEN "remove" ELSE "spin"
    OBVIOUS
  <1>c. PICK c : c = [waitCall[t] EXCEPT !.compared = TRUE]
    OBVIOUS
  <1>e. waitCall' = [waitCall EXCEPT ![t] = c]
    BY <1>c DEF Waits!Compare
  <1>w. waitCall[t] \in Waiting
    BY DEF Waits!Compare, WaiterInv, WaiterAt, Fits, InWait
  <1>k. c \in Waiting
    BY <1>c, <1>w, CallIs
  <1>f. waitPc' = [waitPc EXCEPT ![t] = p] /\ UNCHANGED <<bucket, waitCurrent, pBlock, inHand, LastWake, pItem>>
    BY <1>p DEF Waits!Compare, Waits!Goto, Waits!owner, Waits!walk
  <1>g. flag' = flag
    BY DEF Waits!Compare, Waits!block
  <1>1. waitPc[t] = "compare" /\ WaiterAt(t) /\ waitCall[t] \in WaitCalls /\ flag[t] \in {0, 1, 2, 4}
    BY DEF Waits!Compare, WaiterInv, BucketType
  <1>2. Does(t, p, c, flag[t], inHand[t], LastWake[t], pItem[t])
    BY <1>p, <1>c, <1>e, <1>k, <1>g, <1>f, BucketIs DEF Waits!Compare, Waits!Goto, Does, BucketType, Waits!block, Waits!walk, Waits!owner, Waits!links
  <1>3. Fits(p, c, flag[t], inHand[t], LastWake[t], pItem[t])
    BY <1>p, <1>c, <1>e, <1>k, <1>g, <1>f, <1>1, CallIs DEF WaiterAt, Fits, InWait, InSleep, InWake, InBoth, Waits!Spinning, Waits!Kernel, Waits!Woken, Waits!TimedOut
  <1>4. p \in InPlaces /\ c \in WaitCalls /\ flag[t] \in {0, 1, 2, 4}
    BY <1>p, <1>c, <1>e, <1>k, <1>g, <1>f, <1>1, CallIs DEF WaiterAt, Fits, InPlaces, InWait, InSleep, InWake, InBoth, WaitCalls, Waits!Spinning, Waits!Kernel, Waits!Woken, Waits!TimedOut
  <1>5. inHand[t] \in Block /\ LastWake[t] \in Block /\ pItem[t] \in Block
    BY DEF BucketType
  <1>6. BucketType' /\ WaiterInv' /\ Alone(t) /\ FlagsBut(t) /\ Gets(t, p, c, flag[t], inHand[t], LastWake[t], pItem[t])
    BY <1>2, <1>3, <1>4, <1>5, DoesIs
  <1>7. LocksInv'
    BY <1>p, <1>c, <1>e, <1>k, <1>g, <1>f, <1>1, <1>6, LocksKept, BucketIs DEF Waits!Compare, Gets, BucketType, Locks, Waits!owner, Waits!block
  <1> QED BY <1>p, <1>c, <1>e, <1>k, <1>g, <1>f, <1>6, <1>7

LEMMA SpinEndsDoes ==
  ASSUME OfWaiters, NEW t \in Thread, Waits!Spin(t), flag[t] = Waits!Spinning
  PROVE  OfWaiters' /\ Alone(t) /\ FlagsBut(t) /\ Gets(t, "kernel", waitCall[t], Waits!Kernel, inHand[t], LastWake[t], pItem[t])
  <1> USE DEF OfWaiters
  <1>1. waitPc[t] = "spin" /\ WaiterAt(t) /\ waitCall[t] \in WaitCalls /\ flag[t] \in {0, 1, 2, 4}
    BY DEF Waits!Spin, WaiterInv, BucketType
  <1>2. Does(t, "kernel", waitCall[t], Waits!Kernel, inHand[t], LastWake[t], pItem[t])
    BY BucketIs DEF Waits!Spin, Waits!Goto, Does, BucketType, Waits!block, Waits!walk, Waits!owner, Waits!links
  <1>3. Fits("kernel", waitCall[t], Waits!Kernel, inHand[t], LastWake[t], pItem[t])
    BY <1>1, CallIs DEF WaiterAt, Fits, InWait, InSleep, InWake, InBoth, Waits!Spinning, Waits!Kernel, Waits!Woken, Waits!TimedOut
  <1>4. "kernel" \in InPlaces /\ waitCall[t] \in WaitCalls /\ Waits!Kernel \in {0, 1, 2, 4}
    BY <1>1, CallIs DEF WaiterAt, Fits, InPlaces, InWait, InSleep, InWake, InBoth, WaitCalls, Waits!Spinning, Waits!Kernel, Waits!Woken, Waits!TimedOut
  <1>5. inHand[t] \in Block /\ LastWake[t] \in Block /\ pItem[t] \in Block
    BY DEF BucketType
  <1>6. BucketType' /\ WaiterInv' /\ Alone(t) /\ FlagsBut(t) /\ Gets(t, "kernel", waitCall[t], Waits!Kernel, inHand[t], LastWake[t], pItem[t])
    BY <1>2, <1>3, <1>4, <1>5, DoesIs
  <1>7. LocksInv'
    BY <1>1, <1>6, LocksKept, BucketIs DEF Waits!Spin, Gets, BucketType, Locks, Waits!owner, Waits!block
  <1> QED BY <1>6, <1>7

LEMMA SpinReturnsDoes ==
  ASSUME OfWaiters, NEW t \in Thread, Waits!Spin(t), flag[t] # Waits!Spinning
  PROVE  OfWaiters' /\ Alone(t) /\ FlagsBut(t) /\ Gets(t, "idle", Waits!NoCall, Waits!Spinning, inHand[t], LastWake[t], pItem[t])
  <1> USE DEF OfWaiters
  <1>1. waitPc[t] = "spin" /\ WaiterAt(t) /\ waitCall[t] \in WaitCalls /\ flag[t] \in {0, 1, 2, 4}
    BY DEF Waits!Spin, WaiterInv, BucketType
  <1>2. Does(t, "idle", Waits!NoCall, Waits!Spinning, inHand[t], LastWake[t], pItem[t])
    BY BucketIs DEF Waits!Spin, Waits!Return, Waits!Reset, Waits!Goto, Does, BucketType, Waits!block, Waits!walk, Waits!owner, Waits!links
  <1>3. Fits("idle", Waits!NoCall, Waits!Spinning, inHand[t], LastWake[t], pItem[t])
    BY <1>1, CallIs DEF WaiterAt, Fits, InWait, InSleep, InWake, InBoth, Waits!Spinning, Waits!Kernel, Waits!Woken, Waits!TimedOut
  <1>4. "idle" \in InPlaces /\ Waits!NoCall \in WaitCalls /\ Waits!Spinning \in {0, 1, 2, 4}
    BY <1>1, CallIs DEF WaiterAt, Fits, InPlaces, InWait, InSleep, InWake, InBoth, WaitCalls, Waits!Spinning, Waits!Kernel, Waits!Woken, Waits!TimedOut
  <1>5. inHand[t] \in Block /\ LastWake[t] \in Block /\ pItem[t] \in Block
    BY DEF BucketType
  <1>6. BucketType' /\ WaiterInv' /\ Alone(t) /\ FlagsBut(t) /\ Gets(t, "idle", Waits!NoCall, Waits!Spinning, inHand[t], LastWake[t], pItem[t])
    BY <1>2, <1>3, <1>4, <1>5, DoesIs
  <1>7. LocksInv'
    BY <1>1, <1>6, LocksKept, BucketIs DEF Waits!Spin, Gets, BucketType, Locks, Waits!owner, Waits!block
  <1> QED BY <1>6, <1>7

LEMMA TimeOutDoes ==
  ASSUME OfWaiters, NEW t \in Thread, Waits!TimeOut(t)
  PROVE  OfWaiters' /\ Alone(t) /\ FlagsBut(t) /\ Gets(t, IF flag[t] = Waits!Woken THEN "kernelAgain" ELSE "remove", waitCall[t], Waits!TimedOut, inHand[t], LastWake[t], pItem[t])
  <1> USE DEF OfWaiters
  <1>p. PICK p : p = IF flag[t] = Waits!Woken THEN "kernelAgain" ELSE "remove"
    OBVIOUS
  <1>1. waitPc[t] = "kernel" /\ WaiterAt(t) /\ waitCall[t] \in WaitCalls /\ flag[t] \in {0, 1, 2, 4}
    BY DEF Waits!TimeOut, WaiterInv, BucketType
  <1>2. Does(t, p, waitCall[t], Waits!TimedOut, inHand[t], LastWake[t], pItem[t])
    BY <1>p, BucketIs DEF Waits!TimeOut, Waits!Goto, Does, BucketType, Waits!block, Waits!walk, Waits!owner, Waits!links
  <1>3. Fits(p, waitCall[t], Waits!TimedOut, inHand[t], LastWake[t], pItem[t])
    BY <1>p, <1>1, CallIs DEF WaiterAt, Fits, InWait, InSleep, InWake, InBoth, Waits!Spinning, Waits!Kernel, Waits!Woken, Waits!TimedOut
  <1>4. p \in InPlaces /\ waitCall[t] \in WaitCalls /\ Waits!TimedOut \in {0, 1, 2, 4}
    BY <1>p, <1>1, CallIs DEF WaiterAt, Fits, InPlaces, InWait, InSleep, InWake, InBoth, WaitCalls, Waits!Spinning, Waits!Kernel, Waits!Woken, Waits!TimedOut
  <1>5. inHand[t] \in Block /\ LastWake[t] \in Block /\ pItem[t] \in Block
    BY DEF BucketType
  <1>6. BucketType' /\ WaiterInv' /\ Alone(t) /\ FlagsBut(t) /\ Gets(t, p, waitCall[t], Waits!TimedOut, inHand[t], LastWake[t], pItem[t])
    BY <1>2, <1>3, <1>4, <1>5, DoesIs
  <1>7. LocksInv'
    BY <1>p, <1>1, <1>6, LocksKept, BucketIs DEF Waits!TimeOut, Gets, BucketType, Locks, Waits!owner, Waits!block
  <1> QED BY <1>p, <1>6, <1>7

LEMMA NotFoundDoes ==
  ASSUME OfWaiters, NEW t \in Thread, Waits!NotFound(t)
  PROVE  OfWaiters' /\ Alone(t) /\ FlagsBut(t) /\ Gets(t, IF flag[t] = Waits!Woken THEN "unlock" ELSE "kernelLocked", waitCall[t], Waits!Kernel, inHand[t], LastWake[t], pItem[t])
  <1> USE DEF OfWaiters
  <1>p. PICK p : p = IF flag[t] = Waits!Woken THEN "unlock" ELSE "kernelLocked"
    OBVIOUS
  <1>1. waitPc[t] = "notFound" /\ WaiterAt(t) /\ waitCall[t] \in WaitCalls /\ flag[t] \in {0, 1, 2, 4}
    BY DEF Waits!NotFound, WaiterInv, BucketType
  <1>2. Does(t, p, waitCall[t], Waits!Kernel, inHand[t], LastWake[t], pItem[t])
    BY <1>p, BucketIs DEF Waits!NotFound, Waits!Goto, Does, BucketType, Waits!block, Waits!walk, Waits!owner, Waits!links
  <1>3. Fits(p, waitCall[t], Waits!Kernel, inHand[t], LastWake[t], pItem[t])
    BY <1>p, <1>1, CallIs DEF WaiterAt, Fits, InWait, InSleep, InWake, InBoth, Waits!Spinning, Waits!Kernel, Waits!Woken, Waits!TimedOut
  <1>4. p \in InPlaces /\ waitCall[t] \in WaitCalls /\ Waits!Kernel \in {0, 1, 2, 4}
    BY <1>p, <1>1, CallIs DEF WaiterAt, Fits, InPlaces, InWait, InSleep, InWake, InBoth, WaitCalls, Waits!Spinning, Waits!Kernel, Waits!Woken, Waits!TimedOut
  <1>5. inHand[t] \in Block /\ LastWake[t] \in Block /\ pItem[t] \in Block
    BY DEF BucketType
  <1>6. BucketType' /\ WaiterInv' /\ Alone(t) /\ FlagsBut(t) /\ Gets(t, p, waitCall[t], Waits!Kernel, inHand[t], LastWake[t], pItem[t])
    BY <1>2, <1>3, <1>4, <1>5, DoesIs
  <1>7. LocksInv'
    BY <1>p, <1>1, <1>6, LocksKept, BucketIs DEF Waits!NotFound, Gets, BucketType, Locks, Waits!owner, Waits!block
  <1> QED BY <1>p, <1>6, <1>7

LEMMA RejoinReturnsDoes ==
  ASSUME OfWaiters, NEW t \in Thread, Waits!Rejoin(t), flag[t] = Waits!Woken
  PROVE  OfWaiters' /\ Alone(t) /\ FlagsBut(t) /\ Gets(t, "idle", Waits!NoCall, Waits!Spinning, inHand[t], LastWake[t], pItem[t])
  <1> USE DEF OfWaiters
  <1>1. waitPc[t] = "rejoin" /\ WaiterAt(t) /\ waitCall[t] \in WaitCalls /\ flag[t] \in {0, 1, 2, 4}
    BY DEF Waits!Rejoin, WaiterInv, BucketType
  <1>2. Does(t, "idle", Waits!NoCall, Waits!Spinning, inHand[t], LastWake[t], pItem[t])
    BY BucketIs DEF Waits!Rejoin, Waits!Return, Waits!Reset, Waits!Goto, Does, BucketType, Waits!block, Waits!walk, Waits!owner, Waits!links
  <1>3. Fits("idle", Waits!NoCall, Waits!Spinning, inHand[t], LastWake[t], pItem[t])
    BY <1>1, CallIs DEF WaiterAt, Fits, InWait, InSleep, InWake, InBoth, Waits!Spinning, Waits!Kernel, Waits!Woken, Waits!TimedOut
  <1>4. "idle" \in InPlaces /\ Waits!NoCall \in WaitCalls /\ Waits!Spinning \in {0, 1, 2, 4}
    BY <1>1, CallIs DEF WaiterAt, Fits, InPlaces, InWait, InSleep, InWake, InBoth, WaitCalls, Waits!Spinning, Waits!Kernel, Waits!Woken, Waits!TimedOut
  <1>5. inHand[t] \in Block /\ LastWake[t] \in Block /\ pItem[t] \in Block
    BY DEF BucketType
  <1>6. BucketType' /\ WaiterInv' /\ Alone(t) /\ FlagsBut(t) /\ Gets(t, "idle", Waits!NoCall, Waits!Spinning, inHand[t], LastWake[t], pItem[t])
    BY <1>2, <1>3, <1>4, <1>5, DoesIs
  <1>7. LocksInv'
    BY <1>1, <1>6, LocksKept, BucketIs DEF Waits!Rejoin, Gets, BucketType, Locks, Waits!owner, Waits!block
  <1> QED BY <1>6, <1>7

LEMMA RejoinSpinsDoes ==
  ASSUME OfWaiters, NEW t \in Thread, Waits!Rejoin(t), flag[t] # Waits!Woken
  PROVE  OfWaiters' /\ Alone(t) /\ FlagsBut(t) /\ Gets(t, "spin", [waitCall[t] EXCEPT !.timed = FALSE], Waits!Spinning, inHand[t], LastWake[t], pItem[t])
  <1> USE DEF OfWaiters
  <1>c. PICK c : c = [waitCall[t] EXCEPT !.timed = FALSE]
    OBVIOUS
  <1>e. waitCall' = [waitCall EXCEPT ![t] = c]
    BY <1>c DEF Waits!Rejoin
  <1>w. waitCall[t] \in Waiting
    BY DEF Waits!Rejoin, WaiterInv, WaiterAt, Fits, InWait
  <1>k. c \in Waiting
    BY <1>c, <1>w, CallIs
  <1>f. waitPc' = [waitPc EXCEPT ![t] = "spin"] /\ UNCHANGED <<bucket, waitCurrent, pBlock, inHand, LastWake, pItem>>
    BY DEF Waits!Rejoin, Waits!Goto, Waits!owner, Waits!walk
  <1>1. waitPc[t] = "rejoin" /\ WaiterAt(t) /\ waitCall[t] \in WaitCalls /\ flag[t] \in {0, 1, 2, 4}
    BY DEF Waits!Rejoin, WaiterInv, BucketType
  <1>2. Does(t, "spin", c, Waits!Spinning, inHand[t], LastWake[t], pItem[t])
    BY <1>c, <1>e, <1>k, <1>f, BucketIs DEF Waits!Rejoin, Waits!Goto, Does, BucketType, Waits!block, Waits!walk, Waits!owner, Waits!links
  <1>3. Fits("spin", c, Waits!Spinning, inHand[t], LastWake[t], pItem[t])
    BY <1>c, <1>e, <1>k, <1>f, <1>1, CallIs DEF WaiterAt, Fits, InWait, InSleep, InWake, InBoth, Waits!Spinning, Waits!Kernel, Waits!Woken, Waits!TimedOut
  <1>4. "spin" \in InPlaces /\ c \in WaitCalls /\ Waits!Spinning \in {0, 1, 2, 4}
    BY <1>c, <1>e, <1>k, <1>f, <1>1, CallIs DEF WaiterAt, Fits, InPlaces, InWait, InSleep, InWake, InBoth, WaitCalls, Waits!Spinning, Waits!Kernel, Waits!Woken, Waits!TimedOut
  <1>5. inHand[t] \in Block /\ LastWake[t] \in Block /\ pItem[t] \in Block
    BY DEF BucketType
  <1>6. BucketType' /\ WaiterInv' /\ Alone(t) /\ FlagsBut(t) /\ Gets(t, "spin", c, Waits!Spinning, inHand[t], LastWake[t], pItem[t])
    BY <1>2, <1>3, <1>4, <1>5, DoesIs
  <1>7. LocksInv'
    BY <1>c, <1>e, <1>k, <1>f, <1>1, <1>6, LocksKept, BucketIs DEF Waits!Rejoin, Gets, BucketType, Locks, Waits!owner, Waits!block
  <1> QED BY <1>c, <1>e, <1>k, <1>f, <1>6, <1>7

LEMMA ScannedDoes ==
  ASSUME OfWaiters, NEW t \in Thread, Waits!Scanned(t)
  PROVE  OfWaiters' /\ Alone(t) /\ FlagsBut(t) /\ Gets(t, "releaseAll", waitCall[t], flag[t], inHand[t], LastWake[t], pItem[t])
  <1> USE DEF OfWaiters
  <1>1. waitPc[t] = "scan" /\ WaiterAt(t) /\ waitCall[t] \in WaitCalls /\ flag[t] \in {0, 1, 2, 4}
    BY DEF Waits!Scanned, WaiterInv, BucketType
  <1>2. Does(t, "releaseAll", waitCall[t], flag[t], inHand[t], LastWake[t], pItem[t])
    BY BucketIs DEF Waits!Scanned, Waits!Goto, Does, BucketType, Waits!block, Waits!walk, Waits!owner, Waits!links
  <1>3. Fits("releaseAll", waitCall[t], flag[t], inHand[t], LastWake[t], pItem[t])
    BY <1>1, CallIs DEF WaiterAt, Fits, InWait, InSleep, InWake, InBoth, Waits!Spinning, Waits!Kernel, Waits!Woken, Waits!TimedOut
  <1>4. "releaseAll" \in InPlaces /\ waitCall[t] \in WaitCalls /\ flag[t] \in {0, 1, 2, 4}
    BY <1>1, CallIs DEF WaiterAt, Fits, InPlaces, InWait, InSleep, InWake, InBoth, WaitCalls, Waits!Spinning, Waits!Kernel, Waits!Woken, Waits!TimedOut
  <1>5. inHand[t] \in Block /\ LastWake[t] \in Block /\ pItem[t] \in Block
    BY DEF BucketType
  <1>6. BucketType' /\ WaiterInv' /\ Alone(t) /\ FlagsBut(t) /\ Gets(t, "releaseAll", waitCall[t], flag[t], inHand[t], LastWake[t], pItem[t])
    BY <1>2, <1>3, <1>4, <1>5, DoesIs
  <1>7. LocksInv'
    BY <1>1, <1>6, LocksKept, BucketIs DEF Waits!Scanned, Gets, BucketType, Locks, Waits!owner, Waits!block
  <1> QED BY <1>6, <1>7

LEMMA WakeLeavesDoes ==
  ASSUME OfWaiters, NEW t \in Thread, Waits!Wake(t), bucket.block = Null \/ bucket.locked
  PROVE  OfWaiters' /\ Alone(t) /\ FlagsBut(t) /\ Gets(t, "idle", Waits!NoCall, Waits!Spinning, inHand[t], LastWake[t], pItem[t])
  <1> USE DEF OfWaiters
  <1>0. bucket' = [bucket EXCEPT !.wakeAll = bucket.locked]
    BY DEF Waits!Wake
  <1>b. bucket' \in Buckets /\ bucket'.block = bucket.block /\ bucket'.locked = bucket.locked
    BY <1>0 DEF BucketType, Buckets
  <1>1. waitPc[t] = "wake" /\ WaiterAt(t) /\ waitCall[t] \in WaitCalls /\ flag[t] \in {0, 1, 2, 4}
    BY DEF Waits!Wake, WaiterInv, BucketType
  <1>2. Does(t, "idle", Waits!NoCall, Waits!Spinning, inHand[t], LastWake[t], pItem[t])
    BY <1>0, <1>b, BucketIs DEF Waits!Wake, Waits!Return, Waits!Reset, Waits!Goto, Does, BucketType, Waits!block, Waits!walk, Waits!owner, Waits!links
  <1>3. Fits("idle", Waits!NoCall, Waits!Spinning, inHand[t], LastWake[t], pItem[t])
    BY <1>1, CallIs DEF WaiterAt, Fits, InWait, InSleep, InWake, InBoth, Waits!Spinning, Waits!Kernel, Waits!Woken, Waits!TimedOut
  <1>4. "idle" \in InPlaces /\ Waits!NoCall \in WaitCalls /\ Waits!Spinning \in {0, 1, 2, 4}
    BY <1>1, CallIs DEF WaiterAt, Fits, InPlaces, InWait, InSleep, InWake, InBoth, WaitCalls, Waits!Spinning, Waits!Kernel, Waits!Woken, Waits!TimedOut
  <1>5. inHand[t] \in Block /\ LastWake[t] \in Block /\ pItem[t] \in Block
    BY DEF BucketType
  <1>6. BucketType' /\ WaiterInv' /\ Alone(t) /\ FlagsBut(t) /\ Gets(t, "idle", Waits!NoCall, Waits!Spinning, inHand[t], LastWake[t], pItem[t])
    BY <1>2, <1>3, <1>4, <1>5, DoesIs
  <1>7. LocksInv'
    BY <1>0, <1>b, <1>1, <1>6, LocksKept DEF Waits!Wake, Gets, BucketType, Locks, Waits!owner, Waits!block
  <1> QED BY <1>6, <1>7

LEMMA RemoveAsksDoes ==
  ASSUME OfWaiters, NEW t \in Thread, Waits!RemoveWaitBlock(t), bucket.block = Null \/ bucket.locked
  PROVE  OfWaiters' /\ Alone(t) /\ FlagsBut(t) /\ Gets(t, "rejoin", waitCall[t], flag[t], inHand[t], LastWake[t], pItem[t])
  <1> USE DEF OfWaiters
  <1>0. bucket' = [bucket EXCEPT !.wakeAll = bucket.locked]
    BY DEF Waits!RemoveWaitBlock
  <1>b. bucket' \in Buckets /\ bucket'.block = bucket.block /\ bucket'.locked = bucket.locked
    BY <1>0 DEF BucketType, Buckets
  <1>1. waitPc[t] = "remove" /\ WaiterAt(t) /\ waitCall[t] \in WaitCalls /\ flag[t] \in {0, 1, 2, 4}
    BY DEF Waits!RemoveWaitBlock, WaiterInv, BucketType
  <1>2. Does(t, "rejoin", waitCall[t], flag[t], inHand[t], LastWake[t], pItem[t])
    BY <1>0, <1>b, BucketIs DEF Waits!RemoveWaitBlock, Waits!Goto, Does, BucketType, Waits!block, Waits!walk, Waits!owner, Waits!links
  <1>3. Fits("rejoin", waitCall[t], flag[t], inHand[t], LastWake[t], pItem[t])
    BY <1>1, CallIs DEF WaiterAt, Fits, InWait, InSleep, InWake, InBoth, Waits!Spinning, Waits!Kernel, Waits!Woken, Waits!TimedOut
  <1>4. "rejoin" \in InPlaces /\ waitCall[t] \in WaitCalls /\ flag[t] \in {0, 1, 2, 4}
    BY <1>1, CallIs DEF WaiterAt, Fits, InPlaces, InWait, InSleep, InWake, InBoth, WaitCalls, Waits!Spinning, Waits!Kernel, Waits!Woken, Waits!TimedOut
  <1>5. inHand[t] \in Block /\ LastWake[t] \in Block /\ pItem[t] \in Block
    BY DEF BucketType
  <1>6. BucketType' /\ WaiterInv' /\ Alone(t) /\ FlagsBut(t) /\ Gets(t, "rejoin", waitCall[t], flag[t], inHand[t], LastWake[t], pItem[t])
    BY <1>2, <1>3, <1>4, <1>5, DoesIs
  <1>7. LocksInv'
    BY <1>0, <1>b, <1>1, <1>6, LocksKept DEF Waits!RemoveWaitBlock, Gets, BucketType, Locks, Waits!owner, Waits!block
  <1> QED BY <1>6, <1>7

LEMMA RemoveFindsDoes ==
  ASSUME OfWaiters, NEW t \in Thread, Waits!RemoveWaitBlock(t), ~(bucket.block = Null \/ bucket.locked), bucket.block = t
  PROVE  OfWaiters' /\ Alone(t) /\ FlagsBut(t) /\ Gets(t, "removeFirst", waitCall[t], flag[t], inHand[t], LastWake[t], pItem[t])
  <1> USE DEF OfWaiters
  <1>0. bucket' = [bucket EXCEPT !.locked = TRUE]
    BY DEF Waits!RemoveWaitBlock
  <1>b. bucket' \in Buckets /\ bucket'.block = bucket.block /\ bucket'.locked = TRUE
    BY <1>0, BucketLocked DEF BucketType
  <1>a. waitCurrent' = bucket'
    BY <1>0 DEF Waits!RemoveWaitBlock
  <1>1. waitPc[t] = "remove" /\ WaiterAt(t) /\ waitCall[t] \in WaitCalls /\ flag[t] \in {0, 1, 2, 4}
    BY DEF Waits!RemoveWaitBlock, WaiterInv, BucketType
  <1>2. Does(t, "removeFirst", waitCall[t], flag[t], inHand[t], LastWake[t], pItem[t])
    BY <1>a, <1>b, BucketIs DEF Waits!RemoveWaitBlock, Waits!Goto, Does, BucketType, Waits!block, Waits!walk, Waits!owner, Waits!links
  <1>3. Fits("removeFirst", waitCall[t], flag[t], inHand[t], LastWake[t], pItem[t])
    BY <1>1, CallIs DEF WaiterAt, Fits, InWait, InSleep, InWake, InBoth, Waits!Spinning, Waits!Kernel, Waits!Woken, Waits!TimedOut
  <1>4. "removeFirst" \in InPlaces /\ waitCall[t] \in WaitCalls /\ flag[t] \in {0, 1, 2, 4}
    BY <1>1, CallIs DEF WaiterAt, Fits, InPlaces, InWait, InSleep, InWake, InBoth, WaitCalls, Waits!Spinning, Waits!Kernel, Waits!Woken, Waits!TimedOut
  <1>5. inHand[t] \in Block /\ LastWake[t] \in Block /\ pItem[t] \in Block
    BY DEF BucketType
  <1>6. BucketType' /\ WaiterInv' /\ Alone(t) /\ FlagsBut(t) /\ Gets(t, "removeFirst", waitCall[t], flag[t], inHand[t], LastWake[t], pItem[t])
    BY <1>2, <1>3, <1>4, <1>5, DoesIs
  <1>7. LocksInv'
    BY <1>a, <1>b, <1>1, <1>6, LocksTaken DEF Waits!RemoveWaitBlock, Gets, BucketType, Locks, Waits!owner, Waits!block
  <1> QED BY <1>6, <1>7

LEMMA RemoveCutsDoes ==
  ASSUME OfWaiters, NEW t \in Thread, Waits!RemoveWaitBlock(t), ~(bucket.block = Null \/ bucket.locked), bucket.block # t
  PROVE  OfWaiters' /\ Alone(t) /\ FlagsBut(t) /\ Gets(t, IF t \in Waits!List THEN "unlock" ELSE "notFound", waitCall[t], flag[t], inHand[t], LastWake[t], pItem[t])
  <1> USE DEF OfWaiters
  <1>p. PICK p : p = IF t \in Waits!List THEN "unlock" ELSE "notFound"
    OBVIOUS
  <1>0. bucket' = [bucket EXCEPT !.locked = TRUE]
    BY DEF Waits!RemoveWaitBlock
  <1>b. bucket' \in Buckets /\ bucket'.block = bucket.block /\ bucket'.locked = TRUE
    BY <1>0, BucketLocked DEF BucketType
  <1>1. waitPc[t] = "remove" /\ WaiterAt(t) /\ waitCall[t] \in WaitCalls /\ flag[t] \in {0, 1, 2, 4}
    BY DEF Waits!RemoveWaitBlock, WaiterInv, BucketType
  <1>2. Does(t, p, waitCall[t], flag[t], inHand[t], LastWake[t], pItem[t])
    BY <1>0, <1>b, <1>p, BucketIs DEF Waits!RemoveWaitBlock, Waits!Goto, Does, BucketType, Waits!block, Waits!walk, Waits!owner, Waits!links
  <1>3. Fits(p, waitCall[t], flag[t], inHand[t], LastWake[t], pItem[t])
    BY <1>p, <1>1, CallIs DEF WaiterAt, Fits, InWait, InSleep, InWake, InBoth, Waits!Spinning, Waits!Kernel, Waits!Woken, Waits!TimedOut
  <1>4. p \in InPlaces /\ waitCall[t] \in WaitCalls /\ flag[t] \in {0, 1, 2, 4}
    BY <1>p, <1>1, CallIs DEF WaiterAt, Fits, InPlaces, InWait, InSleep, InWake, InBoth, WaitCalls, Waits!Spinning, Waits!Kernel, Waits!Woken, Waits!TimedOut
  <1>5. inHand[t] \in Block /\ LastWake[t] \in Block /\ pItem[t] \in Block
    BY DEF BucketType
  <1>6. BucketType' /\ WaiterInv' /\ Alone(t) /\ FlagsBut(t) /\ Gets(t, p, waitCall[t], flag[t], inHand[t], LastWake[t], pItem[t])
    BY <1>2, <1>3, <1>4, <1>5, DoesIs
  <1>7. LocksInv'
    BY <1>0, <1>b, <1>p, <1>1, <1>6, LocksTaken DEF Waits!RemoveWaitBlock, Gets, BucketType, Locks, Waits!owner, Waits!block
  <1> QED BY <1>p, <1>6, <1>7

LEMMA RemoveNewestAgainDoes ==
  ASSUME OfWaiters, NEW t \in Thread, Waits!RemoveNewest(t), bucket # waitCurrent, bucket.block = t
  PROVE  OfWaiters' /\ Alone(t) /\ FlagsBut(t) /\ Gets(t, "removeFirst", waitCall[t], flag[t], inHand[t], LastWake[t], pItem[t])
  <1> USE DEF OfWaiters
  <1>1. waitPc[t] = "removeFirst" /\ WaiterAt(t) /\ waitCall[t] \in WaitCalls /\ flag[t] \in {0, 1, 2, 4}
    BY DEF Waits!RemoveNewest, WaiterInv, BucketType
  <1>2. Does(t, "removeFirst", waitCall[t], flag[t], inHand[t], LastWake[t], pItem[t])
    BY BucketIs DEF Waits!RemoveNewest, Does, BucketType, Waits!block, Waits!walk, Waits!owner, Waits!links
  <1>3. Fits("removeFirst", waitCall[t], flag[t], inHand[t], LastWake[t], pItem[t])
    BY <1>1, CallIs DEF WaiterAt, Fits, InWait, InSleep, InWake, InBoth, Waits!Spinning, Waits!Kernel, Waits!Woken, Waits!TimedOut
  <1>4. "removeFirst" \in InPlaces /\ waitCall[t] \in WaitCalls /\ flag[t] \in {0, 1, 2, 4}
    BY <1>1, CallIs DEF WaiterAt, Fits, InPlaces, InWait, InSleep, InWake, InBoth, WaitCalls, Waits!Spinning, Waits!Kernel, Waits!Woken, Waits!TimedOut
  <1>5. inHand[t] \in Block /\ LastWake[t] \in Block /\ pItem[t] \in Block
    BY DEF BucketType
  <1>6. BucketType' /\ WaiterInv' /\ Alone(t) /\ FlagsBut(t) /\ Gets(t, "removeFirst", waitCall[t], flag[t], inHand[t], LastWake[t], pItem[t])
    BY <1>2, <1>3, <1>4, <1>5, DoesIs
  <1>7. LocksInv'
    BY <1>1, <1>6, LocksKept, BucketIs DEF Waits!RemoveNewest, Gets, BucketType, Locks, Waits!owner, Waits!block
  <1> QED BY <1>6, <1>7

LEMMA AddJoinsDoes ==
  ASSUME OfWaiters, NEW t \in Thread, Waits!Add(t), bucket.block = Null \/ bucket.locked
  PROVE  OfWaiters' /\ Alone(t) /\ FlagsBut(t) /\ Gets(t, "compare", waitCall[t], flag[t], inHand[t], LastWake[t], pItem[t])
  <1> USE DEF OfWaiters
  <1>m. PICK n : n = (bucket.locked \/ bucket.block # Null)
    OBVIOUS
  <1>n. n = (bucket.locked \/ bucket.block # Null) /\ n \in BOOLEAN /\ n = bucket.locked
    BY <1>m, BucketIs DEF BucketType, LocksInv
  <1>0. bucket' = Waits!Word(t, n, bucket.wakeAll)
    BY <1>n DEF Waits!Add
  <1>x. t \in Block /\ bucket.wakeAll \in BOOLEAN /\ UNCHANGED <<waitCurrent, pBlock>>
    BY BucketIs DEF BucketType, Block, Waits!Add, Waits!owner
  <1>y. bucket' \in Buckets /\ bucket'.block = t /\ bucket'.locked = n
    BY <1>0, <1>n, <1>x, BucketNew
  <1>b. bucket' \in Buckets /\ waitCurrent' \in Buckets /\ pBlock' \in Block /\ bucket'.block = t /\ bucket'.locked = bucket.locked
    BY <1>n, <1>x, <1>y DEF BucketType
  <1>z. waitPc' = [waitPc EXCEPT ![t] = "compare"] /\ UNCHANGED <<flag, waitCall, inHand, LastWake, pItem>>
    BY DEF Waits!Add, Waits!Goto, Waits!walk
  <1>1. waitPc[t] = "add" /\ WaiterAt(t) /\ waitCall[t] \in WaitCalls /\ flag[t] \in {0, 1, 2, 4}
    BY DEF Waits!Add, WaiterInv, BucketType
  <1>2. Does(t, "compare", waitCall[t], flag[t], inHand[t], LastWake[t], pItem[t])
    BY <1>b, <1>z DEF Does, BucketType
  <1>3. Fits("compare", waitCall[t], flag[t], inHand[t], LastWake[t], pItem[t])
    BY <1>1, CallIs, NullIsNoThread DEF WaiterAt, Fits, InWait, InSleep, InWake, InBoth, Waits!Spinning, Waits!Kernel, Waits!Woken, Waits!TimedOut
  <1>4. "compare" \in InPlaces /\ waitCall[t] \in WaitCalls /\ flag[t] \in {0, 1, 2, 4}
    BY <1>1, CallIs DEF WaiterAt, Fits, InPlaces, InWait, InSleep, InWake, InBoth, WaitCalls, Waits!Spinning, Waits!Kernel, Waits!Woken, Waits!TimedOut
  <1>5. inHand[t] \in Block /\ LastWake[t] \in Block /\ pItem[t] \in Block
    BY BucketIs DEF BucketType, Block
  <1>6. BucketType' /\ WaiterInv' /\ Alone(t) /\ FlagsBut(t) /\ Gets(t, "compare", waitCall[t], flag[t], inHand[t], LastWake[t], pItem[t])
    BY <1>2, <1>3, <1>4, <1>5, DoesIs
  <1>7. LocksInv'
    BY <1>0, <1>b, <1>1, <1>6, LocksKept, NullIsNoThread DEF Waits!Add, Waits!Goto, Gets, BucketType, Locks, Waits!owner, Waits!block
  <1> QED BY <1>6, <1>7

LEMMA AddLocksDoes ==
  ASSUME OfWaiters, NEW t \in Thread, Waits!Add(t), ~(bucket.block = Null \/ bucket.locked)
  PROVE  OfWaiters' /\ Alone(t) /\ FlagsBut(t) /\ Gets(t, "look", waitCall[t], flag[t], inHand[t], LastWake[t], pItem[t])
  <1> USE DEF OfWaiters
  <1>m. PICK n : n = (bucket.locked \/ bucket.block # Null)
    OBVIOUS
  <1>n. n = (bucket.locked \/ bucket.block # Null) /\ n \in BOOLEAN /\ n = TRUE
    BY <1>m, BucketIs DEF BucketType, LocksInv
  <1>0. bucket' = Waits!Word(t, n, bucket.wakeAll)
    BY <1>n DEF Waits!Add
  <1>x. t \in Block /\ bucket.wakeAll \in BOOLEAN /\ UNCHANGED <<waitCurrent, pBlock>>
    BY BucketIs DEF BucketType, Block, Waits!Add, Waits!owner
  <1>y. bucket' \in Buckets /\ bucket'.block = t /\ bucket'.locked = n
    BY <1>0, <1>n, <1>x, BucketNew
  <1>b. bucket' \in Buckets /\ waitCurrent' \in Buckets /\ pBlock' \in Block /\ bucket'.block = t /\ bucket'.locked = TRUE
    BY <1>n, <1>x, <1>y DEF BucketType
  <1>z. waitPc' = [waitPc EXCEPT ![t] = "look"] /\ UNCHANGED <<flag, waitCall, inHand, LastWake, pItem>>
    BY DEF Waits!Add, Waits!Goto, Waits!walk
  <1>1. waitPc[t] = "add" /\ WaiterAt(t) /\ waitCall[t] \in WaitCalls /\ flag[t] \in {0, 1, 2, 4}
    BY DEF Waits!Add, WaiterInv, BucketType
  <1>2. Does(t, "look", waitCall[t], flag[t], inHand[t], LastWake[t], pItem[t])
    BY <1>b, <1>z DEF Does, BucketType
  <1>3. Fits("look", waitCall[t], flag[t], inHand[t], LastWake[t], pItem[t])
    BY <1>1, CallIs, NullIsNoThread DEF WaiterAt, Fits, InWait, InSleep, InWake, InBoth, Waits!Spinning, Waits!Kernel, Waits!Woken, Waits!TimedOut
  <1>4. "look" \in InPlaces /\ waitCall[t] \in WaitCalls /\ flag[t] \in {0, 1, 2, 4}
    BY <1>1, CallIs DEF WaiterAt, Fits, InPlaces, InWait, InSleep, InWake, InBoth, WaitCalls, Waits!Spinning, Waits!Kernel, Waits!Woken, Waits!TimedOut
  <1>5. inHand[t] \in Block /\ LastWake[t] \in Block /\ pItem[t] \in Block
    BY BucketIs DEF BucketType, Block
  <1>6. BucketType' /\ WaiterInv' /\ Alone(t) /\ FlagsBut(t) /\ Gets(t, "look", waitCall[t], flag[t], inHand[t], LastWake[t], pItem[t])
    BY <1>2, <1>3, <1>4, <1>5, DoesIs
  <1>7. LocksInv'
    BY <1>0, <1>b, <1>1, <1>6, LocksTaken, NullIsNoThread DEF Waits!Add, Waits!Goto, Gets, BucketType, Locks, Waits!owner, Waits!block
  <1> QED BY <1>6, <1>7

LEMMA OptimizeAgainDoes ==
  ASSUME OfWaiters, NEW t \in Thread, Waits!Optimize(t), bucket # waitCurrent
  PROVE  OfWaiters' /\ Alone(t) /\ FlagsBut(t) /\ Gets(t, "optimize", waitCall[t], flag[t], inHand[t], LastWake[t], pItem[t])
  <1> USE DEF OfWaiters
  <1>1. waitPc[t] = "optimize" /\ WaiterAt(t) /\ waitCall[t] \in WaitCalls /\ flag[t] \in {0, 1, 2, 4}
    BY DEF Waits!Optimize, WaiterInv, BucketType
  <1>2. Does(t, "optimize", waitCall[t], flag[t], inHand[t], LastWake[t], pItem[t])
    BY BucketIs DEF Waits!Optimize, Waits!Goto, Does, BucketType, Waits!block, Waits!walk, Waits!owner, Waits!links
  <1>3. Fits("optimize", waitCall[t], flag[t], inHand[t], LastWake[t], pItem[t])
    BY <1>1, CallIs, NullIsNoThread DEF WaiterAt, Fits, InWait, InSleep, InWake, InBoth, Waits!Spinning, Waits!Kernel, Waits!Woken, Waits!TimedOut
  <1>4. "optimize" \in InPlaces /\ waitCall[t] \in WaitCalls /\ flag[t] \in {0, 1, 2, 4}
    BY <1>1, CallIs DEF WaiterAt, Fits, InPlaces, InWait, InSleep, InWake, InBoth, WaitCalls, Waits!Spinning, Waits!Kernel, Waits!Woken, Waits!TimedOut
  <1>5. inHand[t] \in Block /\ LastWake[t] \in Block /\ pItem[t] \in Block
    BY BucketIs DEF BucketType, Block
  <1>6. BucketType' /\ WaiterInv' /\ Alone(t) /\ FlagsBut(t) /\ Gets(t, "optimize", waitCall[t], flag[t], inHand[t], LastWake[t], pItem[t])
    BY <1>2, <1>3, <1>4, <1>5, DoesIs
  <1>7. LocksInv'
    BY <1>1, <1>6, LocksKept, NullIsNoThread DEF Waits!Optimize, Waits!Goto, Gets, BucketType, Locks, Waits!owner, Waits!block
  <1> QED BY <1>6, <1>7

LEMMA OptimizeEndsDoes ==
  ASSUME OfWaiters, NEW t \in Thread, Waits!Optimize(t), bucket = waitCurrent, ~bucket.wakeAll
  PROVE  OfWaiters' /\ Alone(t) /\ FlagsBut(t) /\ Gets(t, "compare", waitCall[t], flag[t], inHand[t], LastWake[t], pItem[t])
  <1> USE DEF OfWaiters
  <1>0. bucket' = [bucket EXCEPT !.locked = FALSE] /\ waitCurrent' = Waits!Empty
    BY DEF Waits!Optimize, Waits!Unlock
  <1>b. bucket' \in Buckets /\ waitCurrent' \in Buckets /\ pBlock' \in Block /\ bucket'.block = bucket.block /\ bucket'.locked = FALSE
    BY <1>0, BucketNew DEF BucketType, Buckets, Waits!Optimize, Waits!owner
  <1>1. waitPc[t] = "optimize" /\ WaiterAt(t) /\ waitCall[t] \in WaitCalls /\ flag[t] \in {0, 1, 2, 4}
    BY DEF Waits!Optimize, WaiterInv, BucketType
  <1>2. Does(t, "compare", waitCall[t], flag[t], inHand[t], LastWake[t], pItem[t])
    BY <1>0, <1>b, BucketIs DEF Waits!Optimize, Waits!Goto, Waits!Unlock, Does, BucketType, Waits!block, Waits!walk, Waits!owner, Waits!links
  <1>3. Fits("compare", waitCall[t], flag[t], inHand[t], LastWake[t], pItem[t])
    BY <1>1, CallIs, NullIsNoThread DEF WaiterAt, Fits, InWait, InSleep, InWake, InBoth, Waits!Spinning, Waits!Kernel, Waits!Woken, Waits!TimedOut
  <1>4. "compare" \in InPlaces /\ waitCall[t] \in WaitCalls /\ flag[t] \in {0, 1, 2, 4}
    BY <1>1, CallIs DEF WaiterAt, Fits, InPlaces, InWait, InSleep, InWake, InBoth, WaitCalls, Waits!Spinning, Waits!Kernel, Waits!Woken, Waits!TimedOut
  <1>5. inHand[t] \in Block /\ LastWake[t] \in Block /\ pItem[t] \in Block
    BY BucketIs DEF BucketType, Block
  <1>6. BucketType' /\ WaiterInv' /\ Alone(t) /\ FlagsBut(t) /\ Gets(t, "compare", waitCall[t], flag[t], inHand[t], LastWake[t], pItem[t])
    BY <1>2, <1>3, <1>4, <1>5, DoesIs
  <1>7. LocksInv'
    BY <1>0, <1>b, <1>1, <1>6, LocksLeft, NullIsNoThread DEF Waits!Optimize, Waits!Goto, Waits!Unlock, Gets, BucketType, Locks, Waits!owner, Waits!block
  <1> QED BY <1>6, <1>7

LEMMA OptimizeWakesDoes ==
  ASSUME OfWaiters, NEW t \in Thread, Waits!Optimize(t), bucket = waitCurrent, bucket.wakeAll
  PROVE  OfWaiters' /\ Alone(t) /\ FlagsBut(t) /\ Gets(t, "wakeList", waitCall[t], flag[t], inHand[t], LastWake[t], bucket.block)
  <1> USE DEF OfWaiters
  <1>i. PICK i : i = bucket.block
    OBVIOUS
  <1>0. bucket' = Waits!Empty /\ waitCurrent' = Waits!Empty
    BY DEF Waits!Optimize, Waits!Unlock
  <1>b. bucket' \in Buckets /\ waitCurrent' \in Buckets /\ pBlock' \in Block /\ bucket'.block = Null /\ bucket'.locked = FALSE
    BY <1>0, BucketNew DEF BucketType, Waits!Optimize, Waits!owner
  <1>1. waitPc[t] = "optimize" /\ WaiterAt(t) /\ waitCall[t] \in WaitCalls /\ flag[t] \in {0, 1, 2, 4}
    BY DEF Waits!Optimize, WaiterInv, BucketType
  <1>2. Does(t, "wakeList", waitCall[t], flag[t], inHand[t], LastWake[t], i)
    BY <1>0, <1>b, <1>i, BucketIs DEF Waits!Optimize, Waits!Goto, Waits!Unlock, Does, BucketType, Waits!block, Waits!walk, Waits!owner, Waits!links
  <1>3. Fits("wakeList", waitCall[t], flag[t], inHand[t], LastWake[t], i)
    BY <1>i, <1>1, CallIs, NullIsNoThread DEF WaiterAt, Fits, InWait, InSleep, InWake, InBoth, Waits!Spinning, Waits!Kernel, Waits!Woken, Waits!TimedOut
  <1>4. "wakeList" \in InPlaces /\ waitCall[t] \in WaitCalls /\ flag[t] \in {0, 1, 2, 4}
    BY <1>i, <1>1, CallIs DEF WaiterAt, Fits, InPlaces, InWait, InSleep, InWake, InBoth, WaitCalls, Waits!Spinning, Waits!Kernel, Waits!Woken, Waits!TimedOut
  <1>5. inHand[t] \in Block /\ LastWake[t] \in Block /\ i \in Block
    BY <1>i, BucketIs DEF BucketType, Block
  <1>6. BucketType' /\ WaiterInv' /\ Alone(t) /\ FlagsBut(t) /\ Gets(t, "wakeList", waitCall[t], flag[t], inHand[t], LastWake[t], i)
    BY <1>2, <1>3, <1>4, <1>5, DoesIs
  <1>7. LocksInv'
    BY <1>0, <1>b, <1>i, <1>1, <1>6, LocksLeft, NullIsNoThread DEF Waits!Optimize, Waits!Goto, Waits!Unlock, Gets, BucketType, Locks, Waits!owner, Waits!block
  <1> QED BY <1>i, <1>6, <1>7

LEMMA RemoveNewestCutsDoes ==
  ASSUME OfWaiters, NEW t \in Thread, Waits!RemoveNewest(t), bucket # waitCurrent, bucket.block # t
  PROVE  OfWaiters' /\ Alone(t) /\ FlagsBut(t) /\ Gets(t, "unlock", waitCall[t], flag[t], inHand[t], LastWake[t], pItem[t])
  <1> USE DEF OfWaiters
  <1>0. bucket' = bucket /\ waitCurrent' = Waits!Empty
    BY DEF Waits!RemoveNewest
  <1>b. bucket' \in Buckets /\ waitCurrent' \in Buckets /\ pBlock' \in Block /\ bucket'.block = bucket.block /\ bucket'.locked = bucket.locked
    BY <1>0, BucketNew DEF BucketType, Waits!RemoveNewest, Waits!owner
  <1>1. waitPc[t] = "removeFirst" /\ WaiterAt(t) /\ waitCall[t] \in WaitCalls /\ flag[t] \in {0, 1, 2, 4}
    BY DEF Waits!RemoveNewest, WaiterInv, BucketType
  <1>2. Does(t, "unlock", waitCall[t], flag[t], inHand[t], LastWake[t], pItem[t])
    BY <1>0, <1>b, BucketIs DEF Waits!RemoveNewest, Waits!Goto, Does, BucketType, Waits!block, Waits!walk, Waits!owner, Waits!links
  <1>3. Fits("unlock", waitCall[t], flag[t], inHand[t], LastWake[t], pItem[t])
    BY <1>1, CallIs, NullIsNoThread DEF WaiterAt, Fits, InWait, InSleep, InWake, InBoth, Waits!Spinning, Waits!Kernel, Waits!Woken, Waits!TimedOut
  <1>4. "unlock" \in InPlaces /\ waitCall[t] \in WaitCalls /\ flag[t] \in {0, 1, 2, 4}
    BY <1>1, CallIs DEF WaiterAt, Fits, InPlaces, InWait, InSleep, InWake, InBoth, WaitCalls, Waits!Spinning, Waits!Kernel, Waits!Woken, Waits!TimedOut
  <1>5. inHand[t] \in Block /\ LastWake[t] \in Block /\ pItem[t] \in Block
    BY BucketIs DEF BucketType, Block
  <1>6. BucketType' /\ WaiterInv' /\ Alone(t) /\ FlagsBut(t) /\ Gets(t, "unlock", waitCall[t], flag[t], inHand[t], LastWake[t], pItem[t])
    BY <1>2, <1>3, <1>4, <1>5, DoesIs
  <1>7. LocksInv'
    BY <1>0, <1>b, <1>1, <1>6, LocksKept, NullIsNoThread DEF Waits!RemoveNewest, Waits!Goto, Gets, BucketType, Locks, Waits!owner, Waits!block
  <1> QED BY <1>6, <1>7

LEMMA RemoveLastDoes ==
  ASSUME OfWaiters, NEW t \in Thread, Waits!RemoveNewest(t), bucket = waitCurrent, waitBack[t] = Null
  PROVE  OfWaiters' /\ Alone(t) /\ FlagsBut(t) /\ Gets(t, "idle", Waits!NoCall, Waits!Spinning, inHand[t], LastWake[t], pItem[t])
  <1> USE DEF OfWaiters
  <1>0. bucket' = Waits!Empty /\ waitCurrent' = Waits!Empty
    BY DEF Waits!RemoveNewest
  <1>b. bucket' \in Buckets /\ waitCurrent' \in Buckets /\ pBlock' \in Block /\ bucket'.block = Null /\ bucket'.locked = FALSE
    BY <1>0, BucketNew DEF BucketType, Waits!RemoveNewest, Waits!owner
  <1>1. waitPc[t] = "removeFirst" /\ WaiterAt(t) /\ waitCall[t] \in WaitCalls /\ flag[t] \in {0, 1, 2, 4}
    BY DEF Waits!RemoveNewest, WaiterInv, BucketType
  <1>2. Does(t, "idle", Waits!NoCall, Waits!Spinning, inHand[t], LastWake[t], pItem[t])
    BY <1>0, <1>b, BucketIs DEF Waits!RemoveNewest, Waits!Goto, Waits!Return, Waits!Reset, Does, BucketType, Waits!block, Waits!walk, Waits!owner, Waits!links
  <1>3. Fits("idle", Waits!NoCall, Waits!Spinning, inHand[t], LastWake[t], pItem[t])
    BY <1>1, CallIs, NullIsNoThread DEF WaiterAt, Fits, InWait, InSleep, InWake, InBoth, Waits!Spinning, Waits!Kernel, Waits!Woken, Waits!TimedOut
  <1>4. "idle" \in InPlaces /\ Waits!NoCall \in WaitCalls /\ Waits!Spinning \in {0, 1, 2, 4}
    BY <1>1, CallIs DEF WaiterAt, Fits, InPlaces, InWait, InSleep, InWake, InBoth, WaitCalls, Waits!Spinning, Waits!Kernel, Waits!Woken, Waits!TimedOut
  <1>5. inHand[t] \in Block /\ LastWake[t] \in Block /\ pItem[t] \in Block
    BY BucketIs DEF BucketType, Block
  <1>6. BucketType' /\ WaiterInv' /\ Alone(t) /\ FlagsBut(t) /\ Gets(t, "idle", Waits!NoCall, Waits!Spinning, inHand[t], LastWake[t], pItem[t])
    BY <1>2, <1>3, <1>4, <1>5, DoesIs
  <1>7. LocksInv'
    BY <1>0, <1>b, <1>1, <1>6, LocksLeft, NullIsNoThread DEF Waits!RemoveNewest, Waits!Goto, Waits!Return, Waits!Reset, Gets, BucketType, Locks, Waits!owner, Waits!block
  <1> QED BY <1>6, <1>7

LEMMA RemoveNewestLeavesDoes ==
  ASSUME OfWaiters, NEW t \in Thread, Waits!RemoveNewest(t), bucket = waitCurrent, waitBack[t] \in Thread
  PROVE  OfWaiters' /\ Alone(t) /\ FlagsBut(t) /\ Gets(t, "unlock", waitCall[t], flag[t], inHand[t], LastWake[t], pItem[t])
  <1> USE DEF OfWaiters
  <1>0. bucket' = [bucket EXCEPT !.block = waitBack[t]] /\ waitCurrent' = Waits!Empty
    BY NullIsNoThread DEF Waits!RemoveNewest
  <1>b. bucket' \in Buckets /\ waitCurrent' \in Buckets /\ pBlock' \in Block /\ bucket'.block = waitBack[t] /\ bucket'.locked = bucket.locked
    BY <1>0, BucketNew, NullIsNoThread DEF BucketType, Buckets, Block, Waits!RemoveNewest, Waits!owner
  <1>1. waitPc[t] = "removeFirst" /\ WaiterAt(t) /\ waitCall[t] \in WaitCalls /\ flag[t] \in {0, 1, 2, 4}
    BY DEF Waits!RemoveNewest, WaiterInv, BucketType
  <1>2. Does(t, "unlock", waitCall[t], flag[t], inHand[t], LastWake[t], pItem[t])
    BY <1>0, <1>b, BucketIs, NullIsNoThread DEF Waits!RemoveNewest, Waits!Goto, Does, BucketType, Waits!block, Waits!walk, Waits!owner, Waits!links
  <1>3. Fits("unlock", waitCall[t], flag[t], inHand[t], LastWake[t], pItem[t])
    BY <1>1, CallIs, NullIsNoThread DEF WaiterAt, Fits, InWait, InSleep, InWake, InBoth, Waits!Spinning, Waits!Kernel, Waits!Woken, Waits!TimedOut
  <1>4. "unlock" \in InPlaces /\ waitCall[t] \in WaitCalls /\ flag[t] \in {0, 1, 2, 4}
    BY <1>1, CallIs DEF WaiterAt, Fits, InPlaces, InWait, InSleep, InWake, InBoth, WaitCalls, Waits!Spinning, Waits!Kernel, Waits!Woken, Waits!TimedOut
  <1>5. inHand[t] \in Block /\ LastWake[t] \in Block /\ pItem[t] \in Block
    BY BucketIs DEF BucketType, Block
  <1>6. BucketType' /\ WaiterInv' /\ Alone(t) /\ FlagsBut(t) /\ Gets(t, "unlock", waitCall[t], flag[t], inHand[t], LastWake[t], pItem[t])
    BY <1>2, <1>3, <1>4, <1>5, DoesIs
  <1>7. LocksInv'
    BY <1>0, <1>b, <1>1, <1>6, LocksKept, NullIsNoThread DEF Waits!RemoveNewest, Waits!Goto, Gets, BucketType, Locks, Waits!owner, Waits!block
  <1> QED BY <1>6, <1>7

LEMMA UnlockReturnsDoes ==
  ASSUME OfWaiters, NEW t \in Thread, Waits!UnlockList(t), ~bucket.wakeAll
  PROVE  OfWaiters' /\ Alone(t) /\ FlagsBut(t) /\ Gets(t, "idle", Waits!NoCall, Waits!Spinning, inHand[t], LastWake[t], pItem[t])
  <1> USE DEF OfWaiters
  <1>0. bucket' = [bucket EXCEPT !.locked = FALSE] /\ waitCurrent' = Waits!Empty /\ pBlock' = Null
    BY DEF Waits!UnlockList, Waits!Unlock
  <1>b. bucket' \in Buckets /\ waitCurrent' \in Buckets /\ pBlock' \in Block /\ bucket'.block = bucket.block /\ bucket'.locked = FALSE
    BY <1>0, BucketNew DEF BucketType, Buckets, Block, Waits!UnlockList, Waits!owner
  <1>1. waitPc[t] = "unlock" /\ WaiterAt(t) /\ waitCall[t] \in WaitCalls /\ flag[t] \in {0, 1, 2, 4}
    BY DEF Waits!UnlockList, WaiterInv, BucketType
  <1>2. Does(t, "idle", Waits!NoCall, Waits!Spinning, inHand[t], LastWake[t], pItem[t])
    BY <1>0, <1>b, BucketIs DEF Waits!UnlockList, Waits!Goto, Waits!Unlock, Waits!Return, Waits!Reset, Does, BucketType, Waits!block, Waits!walk, Waits!owner, Waits!links
  <1>3. Fits("idle", Waits!NoCall, Waits!Spinning, inHand[t], LastWake[t], pItem[t])
    BY <1>1, CallIs, NullIsNoThread DEF WaiterAt, Fits, InWait, InSleep, InWake, InBoth, Waits!Spinning, Waits!Kernel, Waits!Woken, Waits!TimedOut
  <1>4. "idle" \in InPlaces /\ Waits!NoCall \in WaitCalls /\ Waits!Spinning \in {0, 1, 2, 4}
    BY <1>1, CallIs DEF WaiterAt, Fits, InPlaces, InWait, InSleep, InWake, InBoth, WaitCalls, Waits!Spinning, Waits!Kernel, Waits!Woken, Waits!TimedOut
  <1>5. inHand[t] \in Block /\ LastWake[t] \in Block /\ pItem[t] \in Block
    BY BucketIs DEF BucketType, Block
  <1>6. BucketType' /\ WaiterInv' /\ Alone(t) /\ FlagsBut(t) /\ Gets(t, "idle", Waits!NoCall, Waits!Spinning, inHand[t], LastWake[t], pItem[t])
    BY <1>2, <1>3, <1>4, <1>5, DoesIs
  <1>7. LocksInv'
    BY <1>0, <1>b, <1>1, <1>6, LocksLeft, NullIsNoThread DEF Waits!UnlockList, Waits!Goto, Waits!Unlock, Waits!Return, Waits!Reset, Gets, BucketType, Locks, Waits!owner, Waits!block
  <1> QED BY <1>6, <1>7

LEMMA UnlockWakesDoes ==
  ASSUME OfWaiters, NEW t \in Thread, Waits!UnlockList(t), bucket.wakeAll
  PROVE  OfWaiters' /\ Alone(t) /\ FlagsBut(t) /\ Gets(t, "wakeList", waitCall[t], flag[t], inHand[t], LastWake[t], bucket.block)
  <1> USE DEF OfWaiters
  <1>i. PICK i : i = bucket.block
    OBVIOUS
  <1>0. bucket' = Waits!Empty /\ waitCurrent' = Waits!Empty /\ pBlock' = Null
    BY DEF Waits!UnlockList, Waits!Unlock
  <1>b. bucket' \in Buckets /\ waitCurrent' \in Buckets /\ pBlock' \in Block /\ bucket'.block = Null /\ bucket'.locked = FALSE
    BY <1>0, BucketNew DEF Block, BucketType, Waits!UnlockList, Waits!owner
  <1>1. waitPc[t] = "unlock" /\ WaiterAt(t) /\ waitCall[t] \in WaitCalls /\ flag[t] \in {0, 1, 2, 4}
    BY DEF Waits!UnlockList, WaiterInv, BucketType
  <1>2. Does(t, "wakeList", waitCall[t], flag[t], inHand[t], LastWake[t], i)
    BY <1>0, <1>b, <1>i, BucketIs DEF Waits!UnlockList, Waits!Goto, Waits!Unlock, Does, BucketType, Waits!block, Waits!walk, Waits!owner, Waits!links
  <1>3. Fits("wakeList", waitCall[t], flag[t], inHand[t], LastWake[t], i)
    BY <1>i, <1>1, CallIs, NullIsNoThread DEF WaiterAt, Fits, InWait, InSleep, InWake, InBoth, Waits!Spinning, Waits!Kernel, Waits!Woken, Waits!TimedOut
  <1>4. "wakeList" \in InPlaces /\ waitCall[t] \in WaitCalls /\ flag[t] \in {0, 1, 2, 4}
    BY <1>i, <1>1, CallIs DEF WaiterAt, Fits, InPlaces, InWait, InSleep, InWake, InBoth, WaitCalls, Waits!Spinning, Waits!Kernel, Waits!Woken, Waits!TimedOut
  <1>5. inHand[t] \in Block /\ LastWake[t] \in Block /\ i \in Block
    BY <1>i, BucketIs DEF BucketType, Block
  <1>6. BucketType' /\ WaiterInv' /\ Alone(t) /\ FlagsBut(t) /\ Gets(t, "wakeList", waitCall[t], flag[t], inHand[t], LastWake[t], i)
    BY <1>2, <1>3, <1>4, <1>5, DoesIs
  <1>7. LocksInv'
    BY <1>0, <1>b, <1>i, <1>1, <1>6, LocksLeft, NullIsNoThread DEF Waits!UnlockList, Waits!Goto, Waits!Unlock, Gets, BucketType, Locks, Waits!owner, Waits!block
  <1> QED BY <1>i, <1>6, <1>7

LEMMA WakeListStaysDoes ==
  ASSUME OfWaiters, NEW t \in Thread, Waits!WakeNext(t), pItem[t] = Null, waitCall[t].kind = "wait", ~waitCall[t].compared
  PROVE  OfWaiters' /\ Alone(t) /\ FlagsBut(t) /\ Gets(t, "compare", waitCall[t], flag[t], inHand[t], LastWake[t], pItem[t])
  <1> USE DEF OfWaiters
  <1>1. waitPc[t] = "wakeList" /\ WaiterAt(t) /\ waitCall[t] \in WaitCalls /\ flag[t] \in {0, 1, 2, 4}
    BY DEF Waits!WakeNext, WaiterInv, BucketType
  <1>2. Does(t, "compare", waitCall[t], flag[t], inHand[t], LastWake[t], pItem[t])
    BY BucketIs DEF Waits!WakeNext, Waits!Goto, Does, BucketType, Waits!block, Waits!walk, Waits!owner, Waits!links
  <1>3. Fits("compare", waitCall[t], flag[t], inHand[t], LastWake[t], pItem[t])
    BY <1>1, CallIs, NullIsNoThread DEF WaiterAt, Fits, InWait, InSleep, InWake, InBoth, Waits!Spinning, Waits!Kernel, Waits!Woken, Waits!TimedOut
  <1>4. "compare" \in InPlaces /\ waitCall[t] \in WaitCalls /\ flag[t] \in {0, 1, 2, 4}
    BY <1>1, CallIs DEF WaiterAt, Fits, InPlaces, InWait, InSleep, InWake, InBoth, WaitCalls, Waits!Spinning, Waits!Kernel, Waits!Woken, Waits!TimedOut
  <1>5. inHand[t] \in Block /\ LastWake[t] \in Block /\ pItem[t] \in Block
    BY BucketIs DEF BucketType, Block
  <1>6. BucketType' /\ WaiterInv' /\ Alone(t) /\ FlagsBut(t) /\ Gets(t, "compare", waitCall[t], flag[t], inHand[t], LastWake[t], pItem[t])
    BY <1>2, <1>3, <1>4, <1>5, DoesIs
  <1>7. LocksInv'
    BY <1>1, <1>6, LocksKept, NullIsNoThread DEF Waits!WakeNext, Waits!Goto, Gets, BucketType, Locks, Waits!owner, Waits!block
  <1> QED BY <1>6, <1>7

LEMMA WakeListReturnsDoes ==
  ASSUME OfWaiters, NEW t \in Thread, Waits!WakeNext(t), pItem[t] = Null, ~(waitCall[t].kind = "wait" /\ ~waitCall[t].compared)
  PROVE  OfWaiters' /\ Alone(t) /\ FlagsBut(t) /\ Gets(t, "idle", Waits!NoCall, Waits!Spinning, inHand[t], LastWake[t], pItem[t])
  <1> USE DEF OfWaiters
  <1>1. waitPc[t] = "wakeList" /\ WaiterAt(t) /\ waitCall[t] \in WaitCalls /\ flag[t] \in {0, 1, 2, 4}
    BY DEF Waits!WakeNext, WaiterInv, BucketType
  <1>2. Does(t, "idle", Waits!NoCall, Waits!Spinning, inHand[t], LastWake[t], pItem[t])
    BY BucketIs DEF Waits!WakeNext, Waits!Goto, Waits!Return, Waits!Reset, Does, BucketType, Waits!block, Waits!walk, Waits!owner, Waits!links
  <1>3. Fits("idle", Waits!NoCall, Waits!Spinning, inHand[t], LastWake[t], pItem[t])
    BY <1>1, CallIs, NullIsNoThread DEF WaiterAt, Fits, InWait, InSleep, InWake, InBoth, Waits!Spinning, Waits!Kernel, Waits!Woken, Waits!TimedOut
  <1>4. "idle" \in InPlaces /\ Waits!NoCall \in WaitCalls /\ Waits!Spinning \in {0, 1, 2, 4}
    BY <1>1, CallIs DEF WaiterAt, Fits, InPlaces, InWait, InSleep, InWake, InBoth, WaitCalls, Waits!Spinning, Waits!Kernel, Waits!Woken, Waits!TimedOut
  <1>5. inHand[t] \in Block /\ LastWake[t] \in Block /\ pItem[t] \in Block
    BY BucketIs DEF BucketType, Block
  <1>6. BucketType' /\ WaiterInv' /\ Alone(t) /\ FlagsBut(t) /\ Gets(t, "idle", Waits!NoCall, Waits!Spinning, inHand[t], LastWake[t], pItem[t])
    BY <1>2, <1>3, <1>4, <1>5, DoesIs
  <1>7. LocksInv'
    BY <1>1, <1>6, LocksKept, NullIsNoThread DEF Waits!WakeNext, Waits!Goto, Waits!Return, Waits!Reset, Gets, BucketType, Locks, Waits!owner, Waits!block
  <1> QED BY <1>6, <1>7

LEMMA WakeLocksDoes ==
  ASSUME OfWaiters, NEW t \in Thread, Waits!Wake(t), ~(bucket.block = Null \/ bucket.locked), Waits!Oldest(bucket.block) \in Block
  PROVE  OfWaiters' /\ Alone(t) /\ FlagsBut(t) /\ Gets(t, "scan", waitCall[t], flag[t], inHand[t], LastWake[t], Waits!Oldest(bucket.block))
  <1> USE DEF OfWaiters
  <1>i. PICK i : i = Waits!Oldest(bucket.block)
    OBVIOUS
  <1>0. bucket' = [bucket EXCEPT !.locked = TRUE] /\ waitCurrent' = bucket' /\ pBlock' = bucket.block
    BY BucketLocked DEF Waits!Wake, Waits!BeginScan, BucketType
  <1>b. bucket' \in Buckets /\ waitCurrent' \in Buckets /\ pBlock' \in Block /\ bucket'.block = bucket.block /\ bucket'.locked = TRUE
    BY <1>0, BucketLocked DEF BucketType, Buckets, Waits!Wake, Waits!owner
  <1>1. waitPc[t] = "wake" /\ WaiterAt(t) /\ waitCall[t] \in WaitCalls /\ flag[t] \in {0, 1, 2, 4}
    BY DEF Waits!Wake, WaiterInv, BucketType
  <1>2. Does(t, "scan", waitCall[t], flag[t], inHand[t], LastWake[t], i)
    BY <1>0, <1>b, <1>i, BucketIs DEF Waits!Wake, Waits!Goto, Waits!BeginScan, Does, BucketType, Waits!block, Waits!walk, Waits!owner, Waits!links
  <1>3. Fits("scan", waitCall[t], flag[t], inHand[t], LastWake[t], i)
    BY <1>i, <1>1, CallIs, NullIsNoThread DEF WaiterAt, Fits, InWait, InSleep, InWake, InBoth, Waits!Spinning, Waits!Kernel, Waits!Woken, Waits!TimedOut
  <1>4. "scan" \in InPlaces /\ waitCall[t] \in WaitCalls /\ flag[t] \in {0, 1, 2, 4}
    BY <1>i, <1>1, CallIs DEF WaiterAt, Fits, InPlaces, InWait, InSleep, InWake, InBoth, WaitCalls, Waits!Spinning, Waits!Kernel, Waits!Woken, Waits!TimedOut
  <1>5. inHand[t] \in Block /\ LastWake[t] \in Block /\ i \in Block
    BY <1>i, BucketIs DEF BucketType, Block
  <1>6. BucketType' /\ WaiterInv' /\ Alone(t) /\ FlagsBut(t) /\ Gets(t, "scan", waitCall[t], flag[t], inHand[t], LastWake[t], i)
    BY <1>2, <1>3, <1>4, <1>5, DoesIs
  <1>7. LocksInv'
    BY <1>0, <1>b, <1>i, <1>1, <1>6, LocksTaken, NullIsNoThread DEF Waits!Wake, Waits!Goto, Waits!BeginScan, Gets, BucketType, Locks, Waits!owner, Waits!block, WaiterAt, Fits
  <1> QED BY <1>i, <1>6, <1>7

LEMMA HoldOlderDoes ==
  ASSUME OfWaiters, NEW t \in Thread, Waits!HoldOlder(t), Locks(t), Waits!First(t) \in Thread, waitNotify[Waits!First(t)] \in Block
  PROVE  OfWaiters' /\ Alone(t) /\ FlagsBut(t) /\ Gets(t, "take", waitCall[t], flag[t], Waits!First(t), LastWake[t], waitNotify[Waits!First(t)])
  <1> USE DEF OfWaiters
  <1>h. PICK h : h = Waits!First(t)
    OBVIOUS
  <1>i. PICK i : i = waitNotify[Waits!First(t)]
    OBVIOUS
  <1>1. waitPc[t] = "scan" /\ WaiterAt(t) /\ waitCall[t] \in WaitCalls /\ flag[t] \in {0, 1, 2, 4}
    BY DEF Waits!HoldOlder, WaiterInv, BucketType
  <1>2. Does(t, "take", waitCall[t], flag[t], h, LastWake[t], i)
    BY <1>h, <1>i, BucketIs DEF Waits!HoldOlder, Waits!Goto, Waits!Hold, Does, BucketType, Waits!block, Waits!walk, Waits!owner, Waits!links
  <1>3. Fits("take", waitCall[t], flag[t], h, LastWake[t], i)
    BY <1>h, <1>i, <1>1, CallIs, NullIsNoThread DEF WaiterAt, Fits, InWait, InSleep, InWake, InBoth, Waits!Spinning, Waits!Kernel, Waits!Woken, Waits!TimedOut
  <1>4. "take" \in InPlaces /\ waitCall[t] \in WaitCalls /\ flag[t] \in {0, 1, 2, 4}
    BY <1>h, <1>i, <1>1, CallIs DEF WaiterAt, Fits, InPlaces, InWait, InSleep, InWake, InBoth, WaitCalls, Waits!Spinning, Waits!Kernel, Waits!Woken, Waits!TimedOut
  <1>5. h \in Block /\ LastWake[t] \in Block /\ i \in Block
    BY <1>h, <1>i, BucketIs DEF BucketType, Block
  <1>6. BucketType' /\ WaiterInv' /\ Alone(t) /\ FlagsBut(t) /\ Gets(t, "take", waitCall[t], flag[t], h, LastWake[t], i)
    BY <1>2, <1>3, <1>4, <1>5, DoesIs
  <1>7. LocksInv'
    BY <1>h, <1>i, <1>1, <1>6, LocksKept, NullIsNoThread DEF Waits!HoldOlder, Waits!Goto, Waits!Hold, Gets, BucketType, Locks, Waits!owner, Waits!block
  <1> QED BY <1>h, <1>i, <1>6, <1>7

LEMMA HoldLastDoes ==
  ASSUME OfWaiters, NEW t \in Thread, Waits!HoldNewest(t), Locks(t), Waits!First(t) \in Thread, waitNotify[Waits!First(t)] \in Block, bucket = waitCurrent, waitBack[pBlock] = Null
  PROVE  OfWaiters' /\ Alone(t) /\ FlagsBut(t) /\ Gets(t, "take", [waitCall[t] EXCEPT !.bNoRemove = TRUE], flag[t], Waits!First(t), LastWake[t], waitNotify[Waits!First(t)])
  <1> USE DEF OfWaiters
  <1>h. PICK h : h = Waits!First(t)
    OBVIOUS
  <1>i. PICK i : i = waitNotify[Waits!First(t)]
    OBVIOUS
  <1>c. PICK c : c = [waitCall[t] EXCEPT !.bNoRemove = TRUE]
    OBVIOUS
  <1>0. bucket' = Waits!Empty /\ waitCurrent' = Waits!Empty /\ pBlock' = Null
    BY DEF Waits!HoldNewest
  <1>b. bucket' \in Buckets /\ waitCurrent' \in Buckets /\ pBlock' \in Block /\ bucket'.block = Null /\ bucket'.locked = FALSE
    BY <1>0, BucketNew DEF Block, BucketType, Waits!HoldNewest, Waits!owner
  <1>e. waitCall' = [waitCall EXCEPT ![t] = c]
    BY <1>c, NullIsNoThread DEF Waits!HoldNewest
  <1>w. waitCall[t] \in Waking1
    BY DEF Waits!HoldNewest, WaiterInv, WaiterAt, Fits, InWake
  <1>k. c \in Waking1 /\ c.bNoRemove = TRUE
    BY <1>c, <1>w, CallIs
  <1>g. UNCHANGED flag
    BY DEF Waits!HoldNewest, Waits!Goto, Waits!Hold
  <1>1. waitPc[t] = "scan" /\ WaiterAt(t) /\ waitCall[t] \in WaitCalls /\ flag[t] \in {0, 1, 2, 4}
    BY DEF Waits!HoldNewest, WaiterInv, BucketType
  <1>2. Does(t, "take", c, flag[t], h, LastWake[t], i)
    BY <1>0, <1>b, <1>h, <1>i, <1>e, <1>k, <1>g, BucketIs DEF Waits!HoldNewest, Waits!Goto, Waits!Hold, Does, BucketType, Waits!block, Waits!walk, Waits!owner, Waits!links
  <1>3. Fits("take", c, flag[t], h, LastWake[t], i)
    BY <1>h, <1>i, <1>e, <1>k, <1>g, <1>1, CallIs, NullIsNoThread DEF WaiterAt, Fits, InWait, InSleep, InWake, InBoth, Waits!Spinning, Waits!Kernel, Waits!Woken, Waits!TimedOut
  <1>4. "take" \in InPlaces /\ c \in WaitCalls /\ flag[t] \in {0, 1, 2, 4}
    BY <1>h, <1>i, <1>e, <1>k, <1>g, <1>1, CallIs DEF WaiterAt, Fits, InPlaces, InWait, InSleep, InWake, InBoth, WaitCalls, Waits!Spinning, Waits!Kernel, Waits!Woken, Waits!TimedOut
  <1>5. h \in Block /\ LastWake[t] \in Block /\ i \in Block
    BY <1>h, <1>i, <1>e, <1>k, <1>g, BucketIs DEF BucketType, Block
  <1>6. BucketType' /\ WaiterInv' /\ Alone(t) /\ FlagsBut(t) /\ Gets(t, "take", c, flag[t], h, LastWake[t], i)
    BY <1>2, <1>3, <1>4, <1>5, DoesIs
  <1>7. LocksInv'
    BY <1>0, <1>b, <1>h, <1>i, <1>e, <1>k, <1>g, <1>1, <1>6, LocksLeft, NullIsNoThread DEF Waits!HoldNewest, Waits!Goto, Waits!Hold, Gets, BucketType, Locks, Waits!owner, Waits!block
  <1> QED BY <1>h, <1>i, <1>e, <1>k, <1>g, <1>c, <1>6, <1>7

LEMMA HoldNewestDoes ==
  ASSUME OfWaiters, NEW t \in Thread, Waits!HoldNewest(t), Locks(t), Waits!First(t) \in Thread, waitNotify[Waits!First(t)] \in Block, bucket = waitCurrent, waitBack[pBlock] \in Thread
  PROVE  OfWaiters' /\ Alone(t) /\ FlagsBut(t) /\ Gets(t, "take", [waitCall[t] EXCEPT !.bNoRemove = FALSE], flag[t], Waits!First(t), LastWake[t], waitNotify[Waits!First(t)])
  <1> USE DEF OfWaiters
  <1>h. PICK h : h = Waits!First(t)
    OBVIOUS
  <1>i. PICK i : i = waitNotify[Waits!First(t)]
    OBVIOUS
  <1>c. PICK c : c = [waitCall[t] EXCEPT !.bNoRemove = FALSE]
    OBVIOUS
  <1>0. bucket' = [bucket EXCEPT !.block = waitBack[pBlock]] /\ waitCurrent' = Waits!Empty /\ pBlock' = Null
    BY NullIsNoThread DEF Waits!HoldNewest
  <1>b. bucket' \in Buckets /\ waitCurrent' \in Buckets /\ pBlock' \in Block /\ bucket'.block = waitBack[pBlock] /\ bucket'.locked = bucket.locked
    BY <1>0, BucketNew, NullIsNoThread DEF BucketType, Buckets, Block, Waits!HoldNewest, Waits!owner
  <1>e. waitCall' = [waitCall EXCEPT ![t] = c]
    BY <1>c, NullIsNoThread DEF Waits!HoldNewest
  <1>w. waitCall[t] \in Waking1
    BY DEF Waits!HoldNewest, WaiterInv, WaiterAt, Fits, InWake
  <1>k. c \in Waking1 /\ c.bNoRemove = FALSE
    BY <1>c, <1>w, CallIs
  <1>g. UNCHANGED flag
    BY DEF Waits!HoldNewest, Waits!Goto, Waits!Hold
  <1>1. waitPc[t] = "scan" /\ WaiterAt(t) /\ waitCall[t] \in WaitCalls /\ flag[t] \in {0, 1, 2, 4}
    BY DEF Waits!HoldNewest, WaiterInv, BucketType
  <1>2. Does(t, "take", c, flag[t], h, LastWake[t], i)
    BY <1>0, <1>b, <1>h, <1>i, <1>e, <1>k, <1>g, BucketIs DEF Waits!HoldNewest, Waits!Goto, Waits!Hold, Does, BucketType, Waits!block, Waits!walk, Waits!owner, Waits!links
  <1>3. Fits("take", c, flag[t], h, LastWake[t], i)
    BY <1>h, <1>i, <1>e, <1>k, <1>g, <1>1, CallIs, NullIsNoThread DEF WaiterAt, Fits, InWait, InSleep, InWake, InBoth, Waits!Spinning, Waits!Kernel, Waits!Woken, Waits!TimedOut
  <1>4. "take" \in InPlaces /\ c \in WaitCalls /\ flag[t] \in {0, 1, 2, 4}
    BY <1>h, <1>i, <1>e, <1>k, <1>g, <1>1, CallIs DEF WaiterAt, Fits, InPlaces, InWait, InSleep, InWake, InBoth, WaitCalls, Waits!Spinning, Waits!Kernel, Waits!Woken, Waits!TimedOut
  <1>5. h \in Block /\ LastWake[t] \in Block /\ i \in Block
    BY <1>h, <1>i, <1>e, <1>k, <1>g, BucketIs DEF BucketType, Block
  <1>6. BucketType' /\ WaiterInv' /\ Alone(t) /\ FlagsBut(t) /\ Gets(t, "take", c, flag[t], h, LastWake[t], i)
    BY <1>2, <1>3, <1>4, <1>5, DoesIs
  <1>7. LocksInv'
    BY <1>0, <1>b, <1>h, <1>i, <1>e, <1>k, <1>g, <1>1, <1>6, LocksKept, NullIsNoThread DEF Waits!HoldNewest, Waits!Goto, Waits!Hold, Gets, BucketType, Locks, Waits!owner, Waits!block
  <1> QED BY <1>h, <1>i, <1>e, <1>k, <1>g, <1>c, <1>6, <1>7

LEMMA HoldAgainDoes ==
  ASSUME OfWaiters, NEW t \in Thread, Waits!HoldNewest(t), Locks(t), bucket # waitCurrent, Waits!Oldest(bucket.block) \in Block
  PROVE  OfWaiters' /\ Alone(t) /\ FlagsBut(t) /\ Gets(t, "scan", waitCall[t], flag[t], inHand[t], LastWake[t], Waits!Oldest(bucket.block))
  <1> USE DEF OfWaiters
  <1>i. PICK i : i = Waits!Oldest(bucket.block)
    OBVIOUS
  <1>0. bucket' = bucket /\ waitCurrent' = bucket /\ pBlock' = bucket.block
    BY DEF Waits!HoldNewest, Waits!BeginScan
  <1>b. bucket' \in Buckets /\ waitCurrent' \in Buckets /\ pBlock' \in Block /\ bucket'.block = bucket.block /\ bucket'.locked = bucket.locked
    BY <1>0 DEF BucketType, Buckets, Waits!HoldNewest, Waits!owner
  <1>1. waitPc[t] = "scan" /\ WaiterAt(t) /\ waitCall[t] \in WaitCalls /\ flag[t] \in {0, 1, 2, 4}
    BY DEF Waits!HoldNewest, WaiterInv, BucketType
  <1>2. Does(t, "scan", waitCall[t], flag[t], inHand[t], LastWake[t], i)
    BY <1>0, <1>b, <1>i, BucketIs DEF Waits!HoldNewest, Waits!Goto, Waits!BeginScan, Does, BucketType, Waits!block, Waits!walk, Waits!owner, Waits!links
  <1>3. Fits("scan", waitCall[t], flag[t], inHand[t], LastWake[t], i)
    BY <1>i, <1>1, CallIs, NullIsNoThread DEF WaiterAt, Fits, InWait, InSleep, InWake, InBoth, Waits!Spinning, Waits!Kernel, Waits!Woken, Waits!TimedOut
  <1>4. "scan" \in InPlaces /\ waitCall[t] \in WaitCalls /\ flag[t] \in {0, 1, 2, 4}
    BY <1>i, <1>1, CallIs DEF WaiterAt, Fits, InPlaces, InWait, InSleep, InWake, InBoth, WaitCalls, Waits!Spinning, Waits!Kernel, Waits!Woken, Waits!TimedOut
  <1>5. inHand[t] \in Block /\ LastWake[t] \in Block /\ i \in Block
    BY <1>i, BucketIs DEF BucketType, Block
  <1>6. BucketType' /\ WaiterInv' /\ Alone(t) /\ FlagsBut(t) /\ Gets(t, "scan", waitCall[t], flag[t], inHand[t], LastWake[t], i)
    BY <1>2, <1>3, <1>4, <1>5, DoesIs
  <1>7. LocksInv'
    BY <1>0, <1>b, <1>i, <1>1, <1>6, LocksKept, NullIsNoThread DEF Waits!HoldNewest, Waits!Goto, Waits!BeginScan, Gets, BucketType, Locks, Waits!owner, Waits!block
  <1> QED BY <1>i, <1>6, <1>7

LEMMA ReleaseAllReturnsDoes ==
  ASSUME OfWaiters, NEW t \in Thread, Waits!ReleaseAll(t), LastWake[t] = Null, waitCall[t].bNoRemove
  PROVE  OfWaiters' /\ Alone(t) /\ FlagsBut(t) /\ Gets(t, "idle", Waits!NoCall, Waits!Spinning, inHand[t], LastWake[t], Null)
  <1> USE DEF OfWaiters
  <1>1. waitPc[t] = "releaseAll" /\ WaiterAt(t) /\ waitCall[t] \in WaitCalls /\ flag[t] \in {0, 1, 2, 4}
    BY DEF Waits!ReleaseAll, WaiterInv, BucketType
  <1>2. Does(t, "idle", Waits!NoCall, Waits!Spinning, inHand[t], LastWake[t], Null)
    BY BucketIs DEF Waits!ReleaseAll, Waits!Goto, Waits!Return, Waits!Reset, Does, BucketType, Waits!block, Waits!walk, Waits!owner, Waits!links
  <1>3. Fits("idle", Waits!NoCall, Waits!Spinning, inHand[t], LastWake[t], Null)
    BY <1>1, CallIs, NullIsNoThread DEF WaiterAt, Fits, InWait, InSleep, InWake, InBoth, Waits!Spinning, Waits!Kernel, Waits!Woken, Waits!TimedOut
  <1>4. "idle" \in InPlaces /\ Waits!NoCall \in WaitCalls /\ Waits!Spinning \in {0, 1, 2, 4}
    BY <1>1, CallIs DEF WaiterAt, Fits, InPlaces, InWait, InSleep, InWake, InBoth, WaitCalls, Waits!Spinning, Waits!Kernel, Waits!Woken, Waits!TimedOut
  <1>5. inHand[t] \in Block /\ LastWake[t] \in Block /\ Null \in Block
    BY BucketIs DEF BucketType, Block
  <1>6. BucketType' /\ WaiterInv' /\ Alone(t) /\ FlagsBut(t) /\ Gets(t, "idle", Waits!NoCall, Waits!Spinning, inHand[t], LastWake[t], Null)
    BY <1>2, <1>3, <1>4, <1>5, DoesIs
  <1>7. LocksInv'
    BY <1>1, <1>6, LocksKept, NullIsNoThread DEF Waits!ReleaseAll, Waits!Goto, Waits!Return, Waits!Reset, Gets, BucketType, Locks, Waits!owner, Waits!block
  <1> QED BY <1>6, <1>7

LEMMA ReleaseAllUnlocksDoes ==
  ASSUME OfWaiters, NEW t \in Thread, Waits!ReleaseAll(t), LastWake[t] = Null, ~waitCall[t].bNoRemove
  PROVE  OfWaiters' /\ Alone(t) /\ FlagsBut(t) /\ Gets(t, "unlock", waitCall[t], flag[t], inHand[t], LastWake[t], Null)
  <1> USE DEF OfWaiters
  <1>1. waitPc[t] = "releaseAll" /\ WaiterAt(t) /\ waitCall[t] \in WaitCalls /\ flag[t] \in {0, 1, 2, 4}
    BY DEF Waits!ReleaseAll, WaiterInv, BucketType
  <1>2. Does(t, "unlock", waitCall[t], flag[t], inHand[t], LastWake[t], Null)
    BY BucketIs DEF Waits!ReleaseAll, Waits!Goto, Does, BucketType, Waits!block, Waits!walk, Waits!owner, Waits!links
  <1>3. Fits("unlock", waitCall[t], flag[t], inHand[t], LastWake[t], Null)
    BY <1>1, CallIs, NullIsNoThread DEF WaiterAt, Fits, InWait, InSleep, InWake, InBoth, Waits!Spinning, Waits!Kernel, Waits!Woken, Waits!TimedOut
  <1>4. "unlock" \in InPlaces /\ waitCall[t] \in WaitCalls /\ flag[t] \in {0, 1, 2, 4}
    BY <1>1, CallIs DEF WaiterAt, Fits, InPlaces, InWait, InSleep, InWake, InBoth, WaitCalls, Waits!Spinning, Waits!Kernel, Waits!Woken, Waits!TimedOut
  <1>5. inHand[t] \in Block /\ LastWake[t] \in Block /\ Null \in Block
    BY BucketIs DEF BucketType, Block
  <1>6. BucketType' /\ WaiterInv' /\ Alone(t) /\ FlagsBut(t) /\ Gets(t, "unlock", waitCall[t], flag[t], inHand[t], LastWake[t], Null)
    BY <1>2, <1>3, <1>4, <1>5, DoesIs
  <1>7. LocksInv'
    BY <1>1, <1>6, LocksKept, NullIsNoThread DEF Waits!ReleaseAll, Waits!Goto, Gets, BucketType, Locks, Waits!owner, Waits!block
  <1> QED BY <1>6, <1>7

LEMMA BeginWaitDoes ==
  ASSUME OfWaiters, NEW t \in Thread, Waits!BeginWait(t)
  PROVE  OfWaiters' /\ Alone(t) /\ FlagsBut(t) /\ \E c : Gets(t, "add", c, flag[t], inHand[t], LastWake[t], pItem[t])
  <1> USE DEF OfWaiters
  <1>1. PICK a \in Address :
          waitCall' = [waitCall EXCEPT ![t] = [kind |-> "wait", address |-> a, timed |-> TRUE, compared |-> FALSE]]
    BY DEF Waits!BeginWait
  <1>2. PICK c : c = [kind |-> "wait", address |-> a, timed |-> TRUE, compared |-> FALSE]
    OBVIOUS
  <1>3. c \in Waiting /\ ~c.compared
    BY <1>2 DEF Waiting
  <1>4. waitPc[t] = "idle" /\ WaiterAt(t) /\ flag[t] \in {0, 1, 2, 4}
    BY DEF Waits!BeginWait, WaiterInv, BucketType
  <1>5. UNCHANGED <<bucket, flag, waitCurrent, pBlock, pItem, inHand, LastWake>> /\ waitPc' = [waitPc EXCEPT ![t] = "add"]
    BY DEF Waits!BeginWait, Waits!Goto, Waits!block, Waits!owner, Waits!walk
  <1>6. Does(t, "add", c, flag[t], inHand[t], LastWake[t], pItem[t])
    BY <1>1, <1>2, <1>5 DEF Does, BucketType
  <1>7. Fits("add", c, flag[t], inHand[t], LastWake[t], pItem[t]) /\ "add" \in InPlaces /\ c \in WaitCalls
    BY <1>3, <1>4, CallIs DEF WaiterAt, Fits, InPlaces, InWait, InSleep, InWake, InBoth, WaitCalls, Waits!Spinning, Waits!Kernel,
       Waits!Woken
  <1>8. inHand[t] \in Block /\ LastWake[t] \in Block /\ pItem[t] \in Block
    BY DEF BucketType
  <1>9. BucketType' /\ WaiterInv' /\ Alone(t) /\ FlagsBut(t) /\ Gets(t, "add", c, flag[t], inHand[t], LastWake[t], pItem[t])
    BY <1>4, <1>6, <1>7, <1>8, DoesIs
  <1>10. LocksInv'
    BY <1>4, <1>5, <1>9, LocksKept DEF Gets, Locks
  <1> QED BY <1>9, <1>10

LEMMA BeginWakeDoes ==
  ASSUME OfWaiters, NEW t \in Thread, Waits!BeginWake(t)
  PROVE  OfWaiters' /\ Alone(t) /\ FlagsBut(t) /\ \E c : Gets(t, "wake", c, flag[t], inHand[t], LastWake[t], pItem[t])
  <1> USE DEF OfWaiters
  <1>1. PICK a \in Address, all \in BOOLEAN :
          waitCall' = [waitCall EXCEPT ![t] = [kind |-> "wake", address |-> a, all |-> all, bNoRemove |-> FALSE]]
    BY DEF Waits!BeginWake
  <1>2. PICK c : c = [kind |-> "wake", address |-> a, all |-> all, bNoRemove |-> FALSE]
    OBVIOUS
  <1>3. c \in Waking1 /\ ~c.bNoRemove
    BY <1>2 DEF Waking1
  <1>4. waitPc[t] = "idle" /\ WaiterAt(t) /\ flag[t] \in {0, 1, 2, 4}
    BY DEF Waits!BeginWake, WaiterInv, BucketType
  <1>5. UNCHANGED <<bucket, flag, waitCurrent, pBlock, pItem, inHand, LastWake>> /\ waitPc' = [waitPc EXCEPT ![t] = "wake"]
    BY DEF Waits!BeginWake, Waits!Goto, Waits!block, Waits!owner, Waits!walk
  <1>6. Does(t, "wake", c, flag[t], inHand[t], LastWake[t], pItem[t])
    BY <1>1, <1>2, <1>5 DEF Does, BucketType
  <1>7. Fits("wake", c, flag[t], inHand[t], LastWake[t], pItem[t]) /\ "wake" \in InPlaces /\ c \in WaitCalls
    BY <1>3, <1>4, CallIs DEF WaiterAt, Fits, InPlaces, InWait, InSleep, InWake, InBoth, WaitCalls, Waits!Spinning, Waits!Kernel,
       Waits!Woken
  <1>8. inHand[t] \in Block /\ LastWake[t] \in Block /\ pItem[t] \in Block
    BY DEF BucketType
  <1>9. BucketType' /\ WaiterInv' /\ Alone(t) /\ FlagsBut(t) /\ Gets(t, "wake", c, flag[t], inHand[t], LastWake[t], pItem[t])
    BY <1>4, <1>6, <1>7, <1>8, DoesIs
  <1>10. LocksInv'
    BY <1>4, <1>5, <1>9, LocksKept DEF Gets, Locks
  <1> QED BY <1>9, <1>10

\* A flag is set.
LEMMA FitsWoken ==
  ASSUME NEW p, NEW c, NEW f, NEW hand, NEW last, NEW item, Fits(p, c, f, hand, last, item), p \notin {"idle", "add"}
  PROVE  Fits(p, c, Waits!Woken, hand, last, item)
  BY DEF Fits, Waits!Spinning, Waits!Kernel, Waits!Woken

\* t sets the flag of b, and changes its own locals.
Sets(t, b, p, hand, last, item) ==
  /\ UNCHANGED <<bucket, waitCurrent, pBlock, waitCall>>
  /\ waitPc' = [waitPc EXCEPT ![t] = p] /\ flag' = [flag EXCEPT ![b] = Waits!Woken]
  /\ inHand' = [inHand EXCEPT ![t] = hand] /\ LastWake' = [LastWake EXCEPT ![t] = last]
  /\ pItem' = [pItem EXCEPT ![t] = item]

LEMMA SetsIs ==
  ASSUME OfWaiters, NEW t \in Thread, NEW b \in Thread, waitPc[b] \notin {"idle", "add"},
         NEW p \in InPlaces, NEW hand \in Block, NEW last \in Block, NEW item \in Block,
         Sets(t, b, p, hand, last, item), Fits(p, waitCall[t], flag[t], hand, last, item), p \notin {"idle", "add"},
         Locks(t)' <=> Locks(t), p = "removeFirst" => waitPc[t] = "removeFirst"
  PROVE  /\ OfWaiters' /\ Alone(t) /\ FlagsBut(b) /\ flag'[b] = Waits!Woken
         /\ Gets(t, p, waitCall[t], IF b = t THEN Waits!Woken ELSE flag[t], hand, last, item)
  <1> USE DEF OfWaiters
  <1>1. BucketType'
    BY DEF Sets, BucketType, Waits!Woken
  <1>2. Alone(t) /\ FlagsBut(b) /\ flag'[b] = Waits!Woken
    BY DEF Sets, BucketType, Alone, FlagsBut
  <1>3. Gets(t, p, waitCall[t], IF b = t THEN Waits!Woken ELSE flag[t], hand, last, item)
    BY DEF Sets, BucketType, Gets
  <1>4. ASSUME NEW u \in Thread
        PROVE  WaiterAt(u)'
    <2>1. flag'[u] = flag[u] \/ (flag'[u] = Waits!Woken /\ u = b)
      <3>1. CASE u = b
        BY <1>2, <3>1
      <3>2. CASE u # b
        BY <1>2, <3>2 DEF FlagsBut
      <3> QED BY <3>1, <3>2
    <2>2. CASE u = t
      <3>1. Fits(p, waitCall[t], flag'[t], hand, last, item)
        BY <2>1, <2>2, FitsWoken
      <3> QED BY <1>3, <2>2, <3>1 DEF WaiterAt, Gets
    <2>3. CASE u # t
      <3>1. Fits(waitPc[u], waitCall[u], flag'[u], inHand[u], LastWake[u], pItem[u])
        BY <2>1, FitsWoken DEF WaiterInv, WaiterAt
      <3> QED BY <1>2, <2>3, <3>1 DEF WaiterAt, Alone
    <2> QED BY <2>2, <2>3
  <1>5. LocksInv'
    BY <1>2, <1>3, LocksKept DEF Sets, Gets, LocksInv
  <1> QED BY <1>1, <1>2, <1>3, <1>4, <1>5 DEF WaiterInv

\* t releases b, which goes on, and changes its own locals.
Frees(t, b, p, hand, last, item) ==
  /\ UNCHANGED <<bucket, waitCurrent, pBlock>> /\ Waits!Release(t, b, p)
  /\ inHand' = [inHand EXCEPT ![t] = hand] /\ LastWake' = [LastWake EXCEPT ![t] = last]
  /\ pItem' = [pItem EXCEPT ![t] = item]

\* Of the threads and their blocks, only t and b change.
AloneWith(t, b) ==
  /\ \A u \in Thread : u # t => inHand'[u] = inHand[u] /\ LastWake'[u] = LastWake[u] /\ pItem'[u] = pItem[u]
  /\ \A u \in Thread : u # b => /\ waitCall'[u] = waitCall[u] /\ flag'[u] = flag[u]
                                /\ waitBack'[u] = waitBack[u] /\ waitNotify'[u] = waitNotify[u] /\ waitNext'[u] = waitNext[u]
  /\ \A u \in Thread : u # b /\ u # t => waitPc'[u] = waitPc[u]

LEMMA FreesIs ==
  ASSUME OfWaiters, WaitLinks, NEW t \in Thread, NEW b \in Thread,
         NEW p \in {"wakeList", "releaseAll"}, p = (IF waitPc[t] = "release" THEN "wakeList" ELSE waitPc[t]),
         NEW hand \in Block, NEW last \in Block, NEW item \in Block,
         Frees(t, b, p, hand, last, item), Fits(p, waitCall[t], flag[t], hand, last, item)
  PROVE  /\ OfWaiters' /\ WaitLinks' /\ AloneWith(t, b) /\ b # t
         /\ waitPc'[t] = p /\ inHand'[t] = hand /\ LastWake'[t] = last /\ pItem'[t] = item
         /\ waitPc[b] \in {"kernel", "kernelAgain", "kernelLocked"}
         /\ \/ waitPc'[b] = "unlock"
            \/ waitPc'[b] = "idle" /\ waitNotify'[b] = Null
  <1> USE DEF OfWaiters
  <1>1. waitPc[b] \in {"kernel", "kernelAgain", "kernelLocked"} /\ b # t /\ waitPc[t] \notin {"kernel", "kernelAgain", "kernelLocked"}
    BY DEF Frees, Waits!Release, Waits!Asleep
  <1>2. \/ /\ waitPc[b] = "kernelLocked"
           /\ waitPc' = [waitPc EXCEPT ![t] = p, ![b] = "unlock"]
           /\ waitCall' = [waitCall EXCEPT ![b] = waitCall[b]] /\ UNCHANGED <<waitBack, waitNotify, waitNext, flag>>
        \/ /\ waitPc[b] # "kernelLocked"
           /\ waitPc' = [waitPc EXCEPT ![t] = p, ![b] = "idle"]
           /\ waitCall' = [waitCall EXCEPT ![b] = Waits!NoCall]
           /\ waitBack' = [waitBack EXCEPT ![b] = Null] /\ waitNotify' = [waitNotify EXCEPT ![b] = Null]
           /\ waitNext' = [waitNext EXCEPT ![b] = Null] /\ flag' = [flag EXCEPT ![b] = Waits!Spinning]
    BY DEF Frees, Waits!Release, Waits!Reset, Waits!block, Waits!links
  <1>3. /\ inHand' = [inHand EXCEPT ![t] = hand] /\ LastWake' = [LastWake EXCEPT ![t] = last]
        /\ pItem' = [pItem EXCEPT ![t] = item] /\ UNCHANGED <<bucket, waitCurrent, pBlock>>
    BY DEF Frees
  <1>4. WaitLinks'
    BY <1>2 DEF WaitLinks, Block
  <1>5. BucketType'
    BY <1>2, <1>3 DEF BucketType, WaitCalls, InPlaces, InBoth, Waits!Spinning
  <1>6. AloneWith(t, b)
    BY <1>1, <1>2, <1>3 DEF AloneWith, BucketType, WaitLinks
  <1>7. waitPc'[t] = p /\ inHand'[t] = hand /\ LastWake'[t] = last /\ pItem'[t] = item
    BY <1>1, <1>2, <1>3 DEF BucketType
  <1>8. \/ waitPc[b] = "kernelLocked" /\ waitPc'[b] = "unlock" /\ waitCall'[b] = waitCall[b] /\ flag'[b] = flag[b]
        \/ /\ waitPc[b] # "kernelLocked" /\ waitPc'[b] = "idle" /\ waitCall'[b] = Waits!NoCall /\ flag'[b] = Waits!Spinning
           /\ waitNotify'[b] = Null
    BY <1>1, <1>2 DEF BucketType, WaitLinks
  <1>9. WaiterAt(b)'
    <2>1. inHand'[b] = inHand[b] /\ LastWake'[b] = LastWake[b] /\ pItem'[b] = pItem[b]
      BY <1>1, <1>6 DEF AloneWith
    <2>2. Fits(waitPc[b], waitCall[b], flag[b], inHand[b], LastWake[b], pItem[b])
      BY DEF WaiterInv, WaiterAt
    <2> QED BY <1>1, <1>8, <2>1, <2>2 DEF WaiterAt, Fits, InWait, InSleep, InWake, InBoth, Waits!Spinning, Waits!Kernel, Waits!Woken
  <1>10. WaiterInv'
    BY <1>1, <1>6, <1>7, <1>9 DEF WaiterInv, WaiterAt, AloneWith
  <1>11. \A u \in Thread : Locks(u)' <=> Locks(u)
    <2>1. Locks(t)' <=> Locks(t)
      BY <1>1, <1>6, <1>7 DEF Locks, AloneWith
    <2>2. Locks(b)' <=> Locks(b)
      BY <1>1, <1>8 DEF Locks
    <2> QED BY <2>1, <2>2, <1>6 DEF Locks, AloneWith
  <1>12. LocksInv'
    <2>1. \A u \in Thread : waitPc'[u] = "removeFirst" => waitPc[u] = "removeFirst"
      BY <1>6, <1>7, <1>8 DEF AloneWith
    <2> QED BY <1>3, <1>11, <2>1 DEF LocksInv
  <1> QED BY <1>1, <1>4, <1>5, <1>6, <1>7, <1>8, <1>10, <1>12

-----------------------------------------------------------------------------
(* The queue of the waits on an address.                                   *)

\* The blocks L on the list whose newest is b: from m on, which knows the oldest, nothing
\* leads to the newer ones.
Queue(link, known, forth, L, b, pos, m) ==
  /\ Ordered(link, L, b, pos)
  /\ L # {} => Known(known, L, pos, m) /\ Forward(forth, link, L, pos, m) /\ Above(forth, L, pos, m, m)

LEMMA QueueTypes ==
  ASSUME NEW link, NEW known, NEW forth, NEW L, NEW b, NEW pos \in [Thread -> Nat], NEW m,
         Queue(link, known, forth, L, b, pos, m)
  PROVE  /\ L \subseteq Thread /\ \A c \in L : pos[c] \in Nat /\ c # Null
         /\ b = Null <=> L = {}
         /\ L # {} => m \in L /\ b \in L /\ \A c \in L : pos[c] <= pos[b]
  BY NullIsNoThread DEF Queue, Ordered, Known

LEMMA QueueNone ==
  ASSUME NEW link, NEW known, NEW forth, NEW pos, NEW m
  PROVE  Queue(link, known, forth, {}, Null, pos, m)
  BY OrderedNone DEF Queue

\* What is written into other blocks does not matter.
LEMMA QueueSame ==
  ASSUME NEW link, NEW known, NEW forth, NEW L, NEW b, NEW pos, NEW m, Queue(link, known, forth, L, b, pos, m),
         NEW link1, NEW known1, NEW forth1, \A x \in L : link1[x] = link[x] /\ known1[x] = known[x] /\ forth1[x] = forth[x]
  PROVE  Queue(link1, known1, forth1, L, b, pos, m)
  <1>1. Ordered(link1, L, b, pos)
    BY OrderedSame DEF Queue
  <1>2. L # {} => Known(known1, L, pos, m)
    BY DEF Queue, Known
  <1>3. L # {} => Forward(forth1, link1, L, pos, m)
    BY DEF Queue, Forward
  <1>4. L # {} => Above(forth1, L, pos, m, m)
    BY DEF Queue, Above
  <1> QED BY <1>1, <1>2, <1>3, <1>4 DEF Queue

\* A block comes on top; the first one is the oldest and knows it.
LEMMA QueuePush ==
  ASSUME NEW link \in [Thread -> Block], NEW known \in [Thread -> Block], NEW forth \in [Thread -> Block],
         NEW L, NEW b, NEW pos \in [Thread -> Nat], NEW m, Queue(link, known, forth, L, b, pos, m),
         NEW t \in Thread, t \notin L, forth[t] = Null,
         NEW n \in Nat, \A x \in L : pos[x] < n,
         NEW link1, link1 = [link EXCEPT ![t] = b],
         NEW known1, known1 = [known EXCEPT ![t] = IF b = Null THEN t ELSE Null],
         NEW m1, m1 = IF b = Null THEN t ELSE m
  PROVE  Queue(link1, known1, forth, L \cup {t}, t, [pos EXCEPT ![t] = n], m1)
  <1>1. PICK w : w = [block |-> b, locked |-> L # {}]
    OBVIOUS
  <1>2. PICK c : c = [block |-> m]
    OBVIOUS
  <1>3. PICK w1 : w1 = [block |-> t, locked |-> L # {}]
    OBVIOUS
  <1>4. w.block = b /\ (w.locked <=> L # {}) /\ c.block = m /\ w1.block = t /\ (w1.locked <=> L # {})
    BY <1>1, <1>2, <1>3
  <1>5. ListedAt(w, c, link, known, forth, L, pos, m)
    BY <1>4 DEF Queue, ListedAt
  <1>6. PushedWord(w, c, L, t, w1, c) /\ PushedLinks(link, known, w, t, m, link1, known1, m1)
    BY <1>4 DEF PushedWord, PushedLinks
  <1>7. ListedAt(w1, c, link1, known1, forth, L \cup {t}, [pos EXCEPT ![t] = n], m1)
    BY <1>5, <1>6, ListedPush
  <1>8. b = Null <=> L = {}
    BY QueueTypes
  <1>9. Above(forth, L \cup {t}, [pos EXCEPT ![t] = n], m1, m1)
    <2>1. CASE L = {}
      BY <1>8, <2>1 DEF Above
    <2>2. CASE L # {}
      BY <1>4, <1>7, <1>8, <2>2 DEF ListedAt
    <2> QED BY <2>1, <2>2
  <1> QED BY <1>4, <1>7, <1>9 DEF ListedAt, Queue

\* The owner marks the list from the block h.
Marked(link, known, forth, known1, forth1, h) ==
  /\ forth1 = LinksOf(link, known, forth, h)
  /\ known1 = [known EXCEPT ![h] = OldestOf(link, known, h)]
QueueFrom(link, known, forth, known1, forth1, L, b, pos, h) ==
  /\ Queue(link, known1, forth1, L, b, pos, h)
  /\ known1 \in [Thread -> Block] /\ forth1 \in [Thread -> Block]
  /\ \A x \in Thread \ L : known1[x] = known[x] /\ forth1[x] = forth[x]
  /\ OldestOf(link, known, h) \in L /\ pos[OldestOf(link, known, h)] <= pos[h]

LEMMA QueueMark ==
  ASSUME NEW link \in [Thread -> Block], NEW known \in [Thread -> Block], NEW forth \in [Thread -> Block],
         NEW L, NEW b, NEW pos \in [Thread -> Nat], NEW m, Queue(link, known, forth, L, b, pos, m),
         NEW h \in L, pos[m] <= pos[h], NEW known1, NEW forth1, Marked(link, known, forth, known1, forth1, h)
  PROVE  QueueFrom(link, known, forth, known1, forth1, L, b, pos, h)
  <1>1. L # {} /\ L \subseteq Thread /\ m \in L /\ \A c \in L : pos[c] \in Nat
    BY QueueTypes
  <1>2. Ordered(link, L, b, pos) /\ Known(known, L, pos, m) /\ Forward(forth, link, L, pos, m) /\ Above(forth, L, pos, m, m)
    BY <1>1 DEF Queue
  <1>3. Above(forth, L, pos, m, h)
    BY <1>1, <1>2 DEF Above
  <1>4. Links(forth1, link, forth, L, pos, h)
    BY <1>2, <1>3, LinkedOf DEF Marked
  <1>5. PICK o : o = OldestOf(link, known, h)
    OBVIOUS
  <1>6. o \in L /\ \A c \in L : pos[o] <= pos[c]
    BY <1>1, <1>2, <1>5, FoundOf
  <1>7. known1 \in [Thread -> Block] /\ known1[h] = o /\ \A x \in Thread : x # h => known1[x] = known[x]
    BY <1>1, <1>5, <1>6 DEF Marked, Block
  <1>8. Known(known1, L, pos, h)
    <2>1. ASSUME NEW c \in L, pos[c] > pos[h]
          PROVE  known1[c] = Null
      <3>1. pos[c] > pos[m] /\ c # h
        BY <1>1, <2>1
      <3> QED BY <1>1, <1>2, <1>7, <3>1 DEF Known
    <2> QED BY <1>6, <1>7, <2>1 DEF Known
  <1>9. Above(forth1, L, pos, h, h)
    BY <1>1, <1>4 DEF Links, Above
  <1> QED BY <1>1, <1>2, <1>4, <1>5, <1>6, <1>7, <1>8, <1>9 DEF Queue, Links, QueueFrom

\* Each block is linked from the one before it: t is taken out of S, if it is there.
Cut(link, known, forth, link1, known1, forth1, S, h, t, U, old) ==
  /\ U = S \ {t} /\ old = (CHOOSE x \in U : link1[x] = Null)
  /\ link1 = [x \in Thread |-> IF x \in U /\ link[x] = t THEN link[t] ELSE link[x]]
  /\ forth1 = [x \in Thread |-> IF x = h THEN Null ELSE IF x \in U THEN CHOOSE y \in U : link1[y] = x ELSE forth[x]]
  /\ known1 \in [Thread -> Block] /\ known1[h] = old /\ \A x \in Thread \ U : known1[x] = known[x]

\* Of the list, U is left.
QueueWithout(link, known, forth, link1, known1, forth1, U, b, pos, m) ==
  /\ Queue(link1, known1, forth1, U, b, pos, m)
  /\ link1 \in [Thread -> Block] /\ known1 \in [Thread -> Block] /\ forth1 \in [Thread -> Block]
  /\ \A x \in Thread \ U : link1[x] = link[x] /\ known1[x] = known[x] /\ forth1[x] = forth[x]

LEMMA QueueCut ==
  ASSUME NEW link \in [Thread -> Block], NEW known \in [Thread -> Block], NEW forth \in [Thread -> Block],
         NEW S, NEW pos \in [Thread -> Nat], NEW h, Ordered(link, S, h, pos), S # {},
         NEW t \in Thread, t # h, NEW link1, NEW known1, NEW forth1, NEW U, NEW old,
         Cut(link, known, forth, link1, known1, forth1, S, h, t, U, old)
  PROVE  QueueWithout(link, known, forth, link1, known1, forth1, U, h, pos, h)
  <1> DEFINE Way(x) == CHOOSE y \in U : link1[y] = x
  <1>c. /\ U = S \ {t} /\ old = (CHOOSE x \in U : link1[x] = Null)
        /\ link1 = [x \in Thread |-> IF x \in S \ {t} /\ link[x] = t THEN link[t] ELSE link[x]]
        /\ forth1 = [x \in Thread |-> IF x = h THEN Null ELSE IF x \in U THEN Way(x) ELSE forth[x]]
        /\ known1 \in [Thread -> Block] /\ known1[h] = old /\ \A x \in Thread \ U : known1[x] = known[x]
    BY DEF Cut
  <1>1. S \subseteq Thread /\ h \in S /\ h \in U /\ U \subseteq Thread /\ U # {} /\ h # Null
    BY <1>c DEF Ordered
  <1>2. Ordered(link1, U, h, pos)
    BY <1>c, OrderedWithout
  <1>3. link1 \in [Thread -> Block]
    BY <1>c
  <1>4. old \in U /\ link1[old] = Null
    <2>1. old = CHOOSE x \in U : link1[x] = Null
      BY <1>c
    <2>2. U # {} /\ Ordered(link1, U, h, pos)
      BY <1>1, <1>2
    <2> QED BY <2>1, <2>2, OrderedEnd
  <1>5. ASSUME NEW x \in U, x # h
        PROVE  Way(x) \in U /\ link1[Way(x)] = x /\ Way(x) # Null
    <2>1. pos[x] < pos[h]
      <3>1. pos[x] <= pos[h] /\ pos[x] # pos[h]
        BY <1>1, <1>2, <1>5 DEF Ordered
      <3>2. pos[x] \in Nat /\ pos[h] \in Nat
        BY <1>1
      <3> QED BY <3>1, <3>2
    <2>2. \E y \in U : link1[y] = x
      BY <1>1, <1>2, <2>1, Successor
    <2>3. Way(x) \in U /\ link1[Way(x)] = x
      BY <2>2
    <2> QED BY <1>1, <2>3, NullIsNoThread
  <1> HIDE DEF Way
  <1>6. forth1 \in [Thread -> Block]
    <2>1. \A x \in Thread : (IF x = h THEN Null ELSE IF x \in U THEN Way(x) ELSE forth[x]) \in Block
      BY <1>1, <1>5 DEF Block
    <2> QED BY <1>c, <2>1
  <1>7. \A x \in Thread \ U : link1[x] = link[x] /\ known1[x] = known[x] /\ forth1[x] = forth[x]
    BY <1>1, <1>c
  <1>8. \A x \in U : pos[x] <= pos[h] /\ pos[x] \in Nat
    BY <1>1, <1>2 DEF Ordered
  <1>9. \A x \in U : pos[old] <= pos[x]
    BY <1>1, <1>2, <1>4, <1>8 DEF Ordered
  <1>10. Known(known1, U, pos, h)
    BY <1>1, <1>4, <1>8, <1>9, <1>c DEF Known
  <1>11. Forward(forth1, link1, U, pos, h)
    <2>1. ASSUME NEW x \in U
          PROVE  /\ forth1[x] # Null => forth1[x] \in U /\ link1[forth1[x]] = x
                 /\ pos[x] < pos[h] => forth1[x] # Null
      <3>1. CASE x = h
        BY <1>1, <1>c, <1>8, <3>1
      <3>2. CASE x # h
        <4>1. forth1[x] = Way(x)
          BY <1>1, <1>c, <3>2
        <4> QED BY <1>5, <3>2, <4>1
      <3> QED BY <3>1, <3>2
    <2> QED BY <2>1 DEF Forward
  <1>12. Above(forth1, U, pos, h, h)
    <2>1. ASSUME NEW x \in U, pos[x] >= pos[h]
          PROVE  forth1[x] = Null
      <3>1. pos[x] = pos[h]
        BY <1>1, <1>8, <2>1
      <3>2. x = h
        BY <1>1, <1>2, <2>1, <3>1 DEF Ordered
      <3> QED BY <1>1, <1>c, <3>2
    <2> QED BY <1>1, <1>8, <2>1 DEF Above
  <1> QED BY <1>2, <1>3, <1>4, <1>6, <1>7, <1>10, <1>11, <1>12, <1>c DEF Queue, QueueWithout

\* A block further down than m is taken out, by the links to it and from it.
Drawn(link, known, forth, link1, known1, forth1, m, f) ==
  LET older == link[f]
      newer == forth[f]
  IN /\ link1 = [link EXCEPT ![newer] = older]
     /\ forth1 = [c \in Thread |-> IF c = older THEN newer ELSE forth[c]]
     /\ known1 = [c \in Thread |-> IF older = Null /\ c \in {m, newer} THEN newer ELSE known[c]]

LEMMA QueueDrawn ==
  ASSUME NEW link \in [Thread -> Block], NEW known \in [Thread -> Block], NEW forth \in [Thread -> Block],
         NEW L, NEW b, NEW pos \in [Thread -> Nat], NEW m, Queue(link, known, forth, L, b, pos, m),
         NEW f \in L, pos[f] < pos[m], NEW link1, NEW known1, NEW forth1,
         Drawn(link, known, forth, link1, known1, forth1, m, f)
  PROVE  /\ QueueWithout(link, known, forth, link1, known1, forth1, L \ {f}, b, pos, m)
         /\ forth[f] \in L \ {f} /\ pos[forth[f]] <= pos[m]
  <1>1. L # {} /\ L \subseteq Thread /\ m \in L /\ b \in L /\ (\A c \in L : pos[c] \in Nat /\ c # Null /\ pos[c] <= pos[b]) /\ b # Null
    BY QueueTypes
  <1>2. Ordered(link, L, b, pos) /\ Known(known, L, pos, m) /\ Forward(forth, link, L, pos, m) /\ Above(forth, L, pos, m, m)
    BY <1>1 DEF Queue
  <1>3. PICK older, newer : older = link[f] /\ newer = forth[f]
    OBVIOUS
  <1>4. newer # Null /\ newer \in L /\ link[newer] = f
    BY <1>2, <1>3 DEF Forward
  <1>5. pos[f] < pos[newer] /\ newer # f
    BY <1>1, <1>2, <1>4 DEF Ordered
  <1>6. pos[newer] <= pos[m]
    <2>1. SUFFICES ASSUME pos[m] < pos[newer]
                   PROVE  FALSE
      BY <1>1, <1>4
    <2>2. pos[m] <= pos[link[newer]]
      BY <1>1, <1>2, <1>4, <2>1 DEF Ordered
    <2> QED BY <1>1, <1>4, <2>2
  <1>7. older # Null => older \in L /\ pos[older] < pos[f] /\ older # f
    BY <1>1, <1>2, <1>3 DEF Ordered
  <1>8. \A x \in L : link[x] = f => x = newer
    <2>1. ASSUME NEW x \in L, link[x] = f, x # newer
          PROVE  FALSE
      <3>1. pos[f] < pos[x]
        BY <1>1, <1>2, <2>1 DEF Ordered
      <3>2. pos[x] # pos[newer]
        BY <1>2, <1>4, <2>1 DEF Ordered
      <3>3. CASE pos[x] < pos[newer]
        <4>1. pos[x] <= pos[link[newer]]
          BY <1>2, <1>4, <3>3 DEF Ordered
        <4> QED BY <1>1, <1>4, <3>1, <4>1
      <3>4. CASE pos[newer] < pos[x]
        <4>1. pos[newer] <= pos[link[x]]
          BY <1>2, <1>4, <3>4 DEF Ordered
        <4> QED BY <1>1, <1>4, <1>5, <2>1, <4>1
      <3> QED BY <1>1, <1>4, <3>2, <3>3, <3>4
    <2> QED BY <2>1
  <1>9. /\ link1 = [link EXCEPT ![newer] = older]
        /\ forth1 = [c \in Thread |-> IF c = older THEN newer ELSE forth[c]]
        /\ known1 = [c \in Thread |-> IF older = Null /\ c \in {m, newer} THEN newer ELSE known[c]]
    BY <1>3 DEF Drawn
  <1> DEFINE U == L \ {f}
  <1>10. older \in Block /\ newer \in Thread
    BY <1>1, <1>3, <1>4
  <1>11. link1 \in [Thread -> Block] /\ known1 \in [Thread -> Block] /\ forth1 \in [Thread -> Block]
    BY <1>9, <1>10 DEF Block
  <1>12. Ordered(link1, U, b, pos)
    <2>1. link1 = [x \in Thread |-> IF x \in L \ {f} /\ link[x] = f THEN link[f] ELSE link[x]]
      BY <1>1, <1>3, <1>4, <1>5, <1>8, <1>9, <1>10
    <2>2. f # b /\ f \in Thread
      BY <1>1
    <2> QED BY <1>2, <2>1, <2>2, OrderedWithout
  <1>13. m \in U /\ newer \in U /\ (older # Null => older \in U)
    BY <1>1, <1>4, <1>5, <1>7
  <1>14. Known(known1, U, pos, m)
    <2>1. CASE older = Null
      <3>1. known1[m] = newer /\ \A c \in U : c \notin {m, newer} => known1[c] = known[c]
        BY <1>1, <1>9, <2>1
      <3>2. \A c \in U : pos[newer] <= pos[c]
        <4>1. ASSUME NEW c \in U, pos[c] < pos[newer]
              PROVE  FALSE
          <5>1. pos[c] <= pos[f]
            BY <1>2, <1>4, <4>1 DEF Ordered
          <5>2. pos[c] # pos[f]
            BY <1>2, <4>1 DEF Ordered
          <5>3. link[f] # Null
            BY <1>1, <1>2, <4>1, <5>1, <5>2 DEF Ordered
          <5> QED BY <1>3, <2>1, <5>3
        <4> QED BY <1>1, <1>4, <4>1
      <3>3. \A c \in U : pos[c] > pos[m] => known1[c] = Null
        BY <1>1, <1>2, <1>4, <1>6, <3>1 DEF Known
      <3> QED BY <1>13, <3>1, <3>2, <3>3 DEF Known
    <2>2. CASE older # Null
      <3>1. \A c \in Thread : known1[c] = known[c]
        BY <1>9, <2>2
      <3>2. known[m] # f
        BY <1>1, <1>2, <1>7, <2>2 DEF Known
      <3> QED BY <1>1, <1>2, <1>13, <3>1, <3>2 DEF Known
    <2> QED BY <2>1, <2>2
  <1>15. Forward(forth1, link1, U, pos, m)
    <2>1. ASSUME NEW c \in U
          PROVE  /\ forth1[c] # Null => forth1[c] \in U /\ link1[forth1[c]] = c
                 /\ pos[c] < pos[m] => forth1[c] # Null
      <3>1. CASE c = older
        <4>1. forth1[c] = newer /\ link1[newer] = older
          BY <1>1, <1>9, <1>10, <3>1
        <4> QED BY <1>4, <1>13, <3>1, <4>1
      <3>2. CASE c # older
        <4>1. forth1[c] = forth[c]
          BY <1>1, <1>9, <3>2
        <4>2. pos[c] < pos[m] => forth[c] # Null
          BY <1>2 DEF Forward
        <4>3. ASSUME forth[c] # Null
              PROVE  forth[c] \in U /\ link1[forth[c]] = c
          <5>1. forth[c] \in L /\ link[forth[c]] = c
            BY <1>2, <4>3 DEF Forward
          <5>2. forth[c] # f
            BY <1>3, <3>2, <5>1
          <5>3. forth[c] # newer
            BY <1>4, <5>1
          <5> QED BY <1>1, <1>9, <5>1, <5>2, <5>3
        <4> QED BY <4>1, <4>2, <4>3
      <3> QED BY <3>1, <3>2
    <2> QED BY <2>1 DEF Forward
  <1>16. Above(forth1, U, pos, m, m)
    <2>1. ASSUME NEW c \in U, pos[c] >= pos[m]
          PROVE  forth1[c] = Null
      <3>1. c # older
        BY <1>1, <1>7, <2>1
      <3>2. forth1[c] = forth[c]
        BY <1>1, <1>9, <3>1
      <3> QED BY <1>2, <2>1, <3>2 DEF Above
    <2> QED BY <1>2, <1>13, <2>1 DEF Above
  <1>17. \A x \in Thread \ U : link1[x] = link[x] /\ known1[x] = known[x] /\ forth1[x] = forth[x]
    <2>1. \A x \in Thread \ U : x # newer /\ x # m /\ x # older
      BY <1>13, NullIsNoThread
    <2> QED BY <1>9, <2>1
  <1> QED BY <1>1, <1>3, <1>6, <1>11, <1>12, <1>13, <1>14, <1>15, <1>16, <1>17 DEF Queue, QueueWithout

\* The newest is taken off, which the owner has marked; the one before it knows the oldest then.
Popped(link, known, forth, known1, forth1, b) ==
  /\ forth1 = [c \in Thread |-> IF c = link[b] THEN Null ELSE forth[c]]
  /\ known1 = [c \in Thread |-> IF c = link[b] THEN known[b] ELSE known[c]]

LEMMA QueuePop ==
  ASSUME NEW link \in [Thread -> Block], NEW known \in [Thread -> Block], NEW forth \in [Thread -> Block],
         NEW L, NEW b, NEW pos \in [Thread -> Nat], Queue(link, known, forth, L, b, pos, b), b # Null,
         NEW known1, NEW forth1, Popped(link, known, forth, known1, forth1, b)
  PROVE  /\ QueueWithout(link, known, forth, link, known1, forth1, L \ {b}, link[b], pos, link[b])
         /\ forth[b] = Null /\ b \in L
  <1>1. L # {} /\ L \subseteq Thread /\ b \in L /\ \A c \in L : pos[c] \in Nat /\ c # Null /\ pos[c] <= pos[b]
    BY QueueTypes
  <1>2. Ordered(link, L, b, pos) /\ Known(known, L, pos, b) /\ Forward(forth, link, L, pos, b) /\ Above(forth, L, pos, b, b)
    BY <1>1 DEF Queue
  <1>3. PICK older : older = link[b]
    OBVIOUS
  <1> DEFINE U == L \ {b}
  <1>4. Ordered(link, U, older, pos) /\ (older # Null => U = {c \in L : pos[c] <= pos[older]})
    <2>1. Ordered(link, L \ {b}, link[b], pos) /\ (link[b] # Null => L \ {b} = {c \in L : pos[c] <= pos[link[b]]})
      BY <1>2, OrderedPop
    <2> QED BY <1>3, <2>1
  <1>5. /\ forth1 = [c \in Thread |-> IF c = older THEN Null ELSE forth[c]]
        /\ known1 = [c \in Thread |-> IF c = older THEN known[b] ELSE known[c]]
    BY <1>3 DEF Popped
  <1>6. known1 \in [Thread -> Block] /\ forth1 \in [Thread -> Block]
    BY <1>1, <1>5 DEF Block
  <1>7. older # Null => older \in U /\ pos[older] < pos[b]
    BY <1>1, <1>2, <1>3 DEF Ordered
  <1>8. \A x \in Thread \ U : known1[x] = known[x] /\ forth1[x] = forth[x]
    BY <1>5, <1>7, NullIsNoThread
  <1>9. forth[b] = Null
    BY <1>1, <1>2 DEF Above
  <1>10. CASE older = Null
    BY <1>1, <1>3, <1>4, <1>6, <1>8, <1>9, <1>10 DEF Queue, Ordered, QueueWithout
  <1>11. CASE older # Null
    <2>1. older \in U /\ pos[older] < pos[b] /\ older \in Thread /\ \A c \in U : pos[c] <= pos[older]
      BY <1>1, <1>4, <1>7, <1>11
    <2>2. Known(known1, U, pos, older)
      <3>1. known[b] \in U
        BY <1>1, <1>2, <2>1 DEF Known
      <3>2. known1[older] = known[b]
        BY <1>5, <2>1
      <3>3. \A c \in U : ~(pos[c] > pos[older])
        BY <1>1, <2>1
      <3> QED BY <1>2, <2>1, <3>1, <3>2, <3>3 DEF Known
    <2>3. Forward(forth1, link, U, pos, older)
      <3>1. ASSUME NEW c \in U
            PROVE  /\ forth1[c] # Null => forth1[c] \in U /\ link[forth1[c]] = c
                   /\ pos[c] < pos[older] => forth1[c] # Null
        <4>1. CASE c = older
          BY <1>1, <1>5, <2>1, <4>1
        <4>2. CASE c # older
          <5>1. forth1[c] = forth[c]
            BY <1>1, <1>5, <4>2
          <5>2. forth[c] # Null => forth[c] \in L /\ link[forth[c]] = c /\ forth[c] # b
            BY <1>2, <1>3, <4>2 DEF Forward
          <5>3. pos[c] < pos[older] => forth[c] # Null
            <6>1. pos[c] < pos[older] => pos[c] < pos[b]
              BY <1>1, <2>1
            <6> QED BY <1>2, <6>1 DEF Forward
          <5> QED BY <5>1, <5>2, <5>3
        <4> QED BY <4>1, <4>2
      <3> QED BY <3>1 DEF Forward
    <2>4. Above(forth1, U, pos, older, older)
      <3>1. ASSUME NEW c \in U, pos[c] >= pos[older]
            PROVE  forth1[c] = Null
        <4>1. pos[c] = pos[older]
          BY <1>1, <2>1, <3>1
        <4>2. c = older
          BY <1>2, <2>1, <4>1 DEF Ordered
        <4> QED BY <1>5, <2>1, <4>2
      <3> QED BY <1>1, <2>1, <3>1 DEF Above
    <2> QED BY <1>1, <1>3, <1>4, <1>6, <1>8, <1>9, <2>2, <2>3, <2>4 DEF Queue, QueueWithout
  <1> QED BY <1>10, <1>11

\* The way to the newer blocks from p on ends at m.
Between(L, pos, p, m) == {c \in L : pos[p] <= pos[c] /\ pos[c] <= pos[m]}

LEMMA AheadIs ==
  ASSUME NEW link \in [Thread -> Block], NEW known \in [Thread -> Block], NEW forth \in [Thread -> Block],
         NEW L, NEW b, NEW pos \in [Thread -> Nat], NEW m, Queue(link, known, forth, L, b, pos, m),
         NEW p \in L, pos[p] <= pos[m]
  PROVE  Follow(forth, p) = Between(L, pos, p, m)
  <1> DEFINE U == {c \in L : pos[p] <= pos[c] /\ pos[c] <= pos[m]}
             rev == [c \in Thread |-> IF c \in U THEN pos[m] - pos[c] ELSE 0]
  <1>1. L # {} /\ L \subseteq Thread /\ m \in L /\ (\A c \in L : pos[c] \in Nat /\ c # Null)
    BY QueueTypes
  <1>2. Ordered(link, L, b, pos) /\ Known(known, L, pos, m) /\ Forward(forth, link, L, pos, m) /\ Above(forth, L, pos, m, m)
    BY <1>1 DEF Queue
  <1>3. rev \in [Thread -> Nat] /\ \A c \in U : rev[c] = pos[m] - pos[c]
    BY <1>1
  <1>4. p \in U /\ m \in U /\ U \subseteq Thread /\ p # Null
    BY <1>1
  <1>5. ASSUME NEW x \in U, forth[x] # Null
        PROVE  forth[x] \in U /\ pos[x] < pos[forth[x]] /\ link[forth[x]] = x
    <2>1. forth[x] \in L /\ link[forth[x]] = x
      BY <1>2, <1>5 DEF Forward
    <2>2. pos[x] < pos[forth[x]]
      BY <1>1, <1>2, <2>1 DEF Ordered
    <2>3. ~(pos[m] < pos[forth[x]])
      <3>1. SUFFICES ASSUME pos[m] < pos[forth[x]]
                     PROVE  FALSE
        OBVIOUS
      <3>2. pos[m] <= pos[x]
        BY <1>1, <1>2, <2>1, <3>1 DEF Ordered
      <3>3. forth[x] = Null
        BY <1>1, <1>2, <3>2 DEF Above
      <3> QED BY <1>5, <3>3
    <2> QED BY <1>1, <2>1, <2>2, <2>3
  <1>6. ASSUME NEW x \in U, NEW c \in U, pos[x] < pos[c]
        PROVE  forth[x] # Null /\ pos[forth[x]] <= pos[c]
    <2>1. forth[x] # Null
      BY <1>1, <1>2, <1>6 DEF Forward
    <2>2. forth[x] \in L /\ link[forth[x]] = x
      BY <2>1, <1>5
    <2>3. ~(pos[c] < pos[forth[x]])
      <3>1. SUFFICES ASSUME pos[c] < pos[forth[x]]
                     PROVE  FALSE
        OBVIOUS
      <3>2. pos[c] <= pos[x]
        BY <1>2, <2>2, <3>1 DEF Ordered
      <3> QED BY <1>1, <1>6, <3>2
    <2> QED BY <1>1, <2>1, <2>2, <2>3
  <1>7. \A x, c \in U : pos[c] = pos[x] => c = x
    BY <1>2 DEF Ordered
  <1>8. Ordered(forth, U, p, rev)
    <2>1. \A c \in U : rev[c] <= rev[p]
      <3> HIDE DEF rev
      <3> QED BY <1>1, <1>3, <1>4
    <2>2. \A x \in U : forth[x] # Null => forth[x] \in U /\ rev[forth[x]] < rev[x]
      <3> HIDE DEF rev
      <3> QED BY <1>1, <1>3, <1>5
    <2>3. \A x, c \in U : rev[c] < rev[x] => forth[x] # Null /\ rev[c] <= rev[forth[x]]
      <3>1. ASSUME NEW x \in U, NEW c \in U, rev[c] < rev[x]
            PROVE  forth[x] # Null /\ rev[c] <= rev[forth[x]]
        <4> HIDE DEF rev
        <4>1. pos[x] < pos[c]
          BY <1>1, <1>3, <3>1
        <4>2. forth[x] # Null /\ pos[forth[x]] <= pos[c] /\ forth[x] \in U
          BY <1>5, <1>6, <4>1
        <4> QED BY <1>1, <1>3, <4>2
      <3> QED BY <3>1
    <2>4. \A x, c \in U : rev[c] = rev[x] => c = x
      <3> HIDE DEF rev
      <3> QED BY <1>1, <1>3, <1>7
    <2> HIDE DEF U, rev
    <2> QED BY <1>4, <2>1, <2>2, <2>3, <2>4 DEF Ordered
  <1>9. Follow(forth, p) = U
    <2> HIDE DEF U, rev
    <2> QED BY <1>3, <1>8, FollowOrdered
  <1> QED BY <1>9 DEF Between

\* Of the blocks from p on that are wanted, one comes first.
FirstOf(forth, S) == CHOOSE c \in S : S \subseteq Follow(forth, c)

Leads(L, pos, m, S, f) == f \in S /\ \A c \in S : c \in L /\ pos[f] <= pos[c] /\ pos[c] <= pos[m]

LEMMA FirstIs ==
  ASSUME NEW link \in [Thread -> Block], NEW known \in [Thread -> Block], NEW forth \in [Thread -> Block],
         NEW L, NEW b, NEW pos \in [Thread -> Nat], NEW m, Queue(link, known, forth, L, b, pos, m),
         NEW p \in L, pos[p] <= pos[m], NEW S \in SUBSET Follow(forth, p), S # {},
         NEW f, f = FirstOf(forth, S)
  PROVE  Leads(L, pos, m, S, f)
  <1>1. L \subseteq Thread /\ \A c \in L : pos[c] \in Nat
    BY QueueTypes
  <1>2. Follow(forth, p) = Between(L, pos, p, m)
    BY AheadIs
  <1>3. \A c \in S : c \in L /\ pos[c] <= pos[m]
    BY <1>2 DEF Between
  <1> DEFINE N == {pos[c] : c \in S}
  <1>4. N \in SUBSET Nat /\ N # {}
    BY <1>1, <1>3
  <1>5. PICK n \in N : \A k \in N : n <= k
    BY <1>4, LeastNumber
  <1>6. PICK x \in S : pos[x] = n
    OBVIOUS
  <1>7. Follow(forth, x) = Between(L, pos, x, m)
    <2>1. x \in L /\ pos[x] <= pos[m]
      BY <1>3
    <2> QED BY <2>1, AheadIs
  <1>8. S \subseteq Follow(forth, x)
    BY <1>3, <1>5, <1>6, <1>7 DEF Between
  <1>9. f \in S /\ S \subseteq Follow(forth, f)
    BY <1>8 DEF FirstOf
  <1>10. f \in L /\ pos[f] <= pos[m]
    BY <1>3, <1>9
  <1>11. Follow(forth, f) = Between(L, pos, f, m)
    BY <1>10, AheadIs
  <1> QED BY <1>3, <1>9, <1>10, <1>11 DEF Between, Leads

-----------------------------------------------------------------------------
(* The queue, and the blocks that wakers have taken off it.                *)

\* Whoever has taken the whole list goes through it by pItem, a waker of an address by LastWake.
Drains(t) == waitPc[t] \in {"wakeList", "release"}
HeadOf(t) == IF Drains(t) THEN pItem[t] ELSE LastWake[t]

Queued(L, pos, m) == Queue(waitBack, waitNext, waitNotify, L, bucket.block, pos, m)
Carries(T, r) == \A t \in Thread : Ordered(waitBack, T[t], HeadOf(t), r)

Disjoint(L, T) ==
  /\ \A t \in Thread : L \cap T[t] = {}
  /\ \A t, u \in Thread : t # u => T[t] \cap T[u] = {}
  /\ \A t \in Thread : inHand[t] # Null => inHand[t] \notin L /\ \A u \in Thread : inHand[t] \notin T[u]
  /\ \A t, u \in Thread : t # u /\ inHand[t] # Null => inHand[t] # inHand[u]

\* The thread waits and has not been woken, or has been and waits to be released.
OnQueue(b) ==
  /\ flag[b] # Waits!Woken
  /\ waitPc[b] \in {"look", "optimize", "compare", "spin", "kernel", "remove", "removeFirst", "rejoin"}
ToSet(b) ==
  /\ flag[b] # Waits!Woken
  /\ \/ waitPc[b] \in {"compare", "spin", "kernel", "remove", "rejoin", "notFound", "kernelLocked"}
     \/ Drains(b) /\ waitCall[b] \in Waiting /\ ~waitCall[b].compared
ToRelease(b) ==
  /\ waitPc[b] \in {"kernel", "kernelAgain", "kernelLocked"}
  /\ waitPc[b] # "kernelAgain" => flag[b] = Waits!Woken
Listed(b) == OnQueue(b) \/ ToSet(b) \/ ToRelease(b)

Placed(L, T) ==
  /\ \A b \in L : OnQueue(b)
  /\ \A t \in Thread : \A b \in T[t] : IF Drains(t) THEN ToSet(b) ELSE ToRelease(b)
  /\ \A t \in Thread : inHand[t] # Null => IF Drains(t) THEN ToRelease(inHand[t]) ELSE ToSet(inHand[t])

\* What the owner relies on, and that nothing is written into blocks that are none yet.
FitAt(t, L, pos, m) ==
  /\ waitPc[t] \in {"idle", "add"} => waitNotify[t] = Null
  /\ waitPc[t] \in {"look", "optimize", "removeFirst"} => t \in L
  /\ waitPc[t] = "optimize" => waitCurrent.block \in L /\ pos[m] <= pos[waitCurrent.block]
  /\ waitPc[t] \in {"scan", "take"} /\ pItem[t] # Null =>
       /\ Locks(t) /\ pBlock = m /\ waitCurrent.block = m
       /\ pItem[t] \in L /\ pos[pItem[t]] <= pos[m]
Fit(L, pos, m) == \A t \in Thread : FitAt(t, L, pos, m)

WaitHolds(L, T, pos, r, m) ==
  /\ WaitLinks /\ Queued(L, pos, m) /\ Carries(T, r) /\ Disjoint(L, T) /\ Placed(L, T) /\ Fit(L, pos, m)

WaitHeld ==
  \E L \in SUBSET Thread, T \in [Thread -> SUBSET Thread], pos \in [Thread -> Nat], r \in [Thread -> Nat], m \in Block :
    WaitHolds(L, T, pos, r, m)

WaitInv == OfWaiters /\ WaitHeld

-----------------------------------------------------------------------------
\* The walks of the model.
LEMMA WaitFollow ==
  /\ \A link, b : Waits!Follow(link, b) = Follow(link, b)
  /\ \A b : Waits!Behind(b) = Follow(waitBack, b) /\ Waits!Ahead(b) = Follow(waitNotify, b)
  BY DEF Waits!Follow, Follow, Waits!Behind, Waits!Ahead

LEMMA WaitWalks ==
  ASSUME NEW h
  PROVE  /\ Waits!Walked(h) = WalkOf(waitBack, waitNext, h) /\ Waits!Oldest(h) = OldestOf(waitBack, waitNext, h)
         /\ Waits!Linked(h) = LinksOf(waitBack, waitNext, waitNotify, h)
  <1>1. Waits!Walked(h) = WalkOf(waitBack, waitNext, h)
    BY WaitFollow DEF Waits!Walked, WalkOf
  <1> QED BY <1>1 DEF Waits!Oldest, OldestOf, Waits!Linked, LinksOf

LEMMA QueueIs ==
  ASSUME WaitLinks, NEW L, NEW pos \in [Thread -> Nat], NEW m, Queued(L, pos, m)
  PROVE  /\ Waits!List = L /\ Waits!Behind(bucket.block) = L
         /\ L \subseteq Thread /\ \A c \in L : pos[c] \in Nat /\ c # Null
         /\ bucket.block = Null <=> L = {}
         /\ L # {} => m \in L /\ bucket.block \in L /\ \A c \in L : pos[c] <= pos[bucket.block]
  <1>1. Ordered(waitBack, L, bucket.block, pos)
    BY DEF Queued, Queue
  <1>2. Follow(waitBack, bucket.block) = L
    BY <1>1, FollowOrdered DEF WaitLinks
  <1>3. Waits!List = L /\ Waits!Behind(bucket.block) = L
    BY <1>2, WaitFollow DEF Waits!List
  <1> QED BY <1>3, QueueTypes DEF Queued

LEMMA CarriedIs ==
  ASSUME WaitLinks, NEW T, NEW r \in [Thread -> Nat], Carries(T, r), NEW t \in Thread
  PROVE  /\ Waits!Behind(HeadOf(t)) = T[t] /\ Ordered(waitBack, T[t], HeadOf(t), r)
         /\ T[t] \subseteq Thread /\ (HeadOf(t) = Null <=> T[t] = {}) /\ (HeadOf(t) # Null => HeadOf(t) \in T[t])
  <1>1. Ordered(waitBack, T[t], HeadOf(t), r)
    BY DEF Carries
  <1>2. Waits!Behind(HeadOf(t)) = T[t]
    BY <1>1, FollowOrdered, WaitFollow DEF WaitLinks
  <1> QED BY <1>1, <1>2 DEF Ordered

-----------------------------------------------------------------------------
(* Steps that leave the chains as they are.                                *)

\* Who is not listed is nowhere.
LEMMA NotPlaced ==
  ASSUME NEW L, NEW T, Placed(L, T), NEW b \in Thread, ~Listed(b)
  PROVE  b \notin L /\ (\A t \in Thread : b \notin T[t]) /\ \A t \in Thread : inHand[t] # b
  BY NullIsNoThread DEF Placed, Listed

\* A block stays where it is, and only the links of one that is nowhere change.
Stays(t, L) ==
  /\ OnQueue(t) => OnQueue(t)'
  /\ t \in L \/ ((ToSet(t) => ToSet(t)') /\ (ToRelease(t) => ToRelease(t)'))
Untouched(t) ==
  /\ \A x \in Thread : x # t => waitBack'[x] = waitBack[x] /\ waitNotify'[x] = waitNotify[x] /\ waitNext'[x] = waitNext[x]
  /\ UNCHANGED <<waitBack, waitNotify, waitNext>> \/ ~Listed(t)

LEMMA OthersPlaced ==
  ASSUME NEW t \in Thread, Alone(t), FlagsBut(t), NEW x \in Thread, x # t
  PROVE  (OnQueue(x)' <=> OnQueue(x)) /\ (ToSet(x)' <=> ToSet(x)) /\ (ToRelease(x)' <=> ToRelease(x)) /\ (Drains(x)' <=> Drains(x))
         /\ HeadOf(x)' = HeadOf(x)
  BY DEF Alone, FlagsBut, OnQueue, ToSet, ToRelease, Drains, HeadOf

\* The others rely on nothing that changes.
LEMMA FitOthers ==
  ASSUME LocksInv, NEW t \in Thread, Alone(t), NEW L, NEW pos, NEW m, Fit(L, pos, m),
         Locks(t) \/ ~bucket.locked \/ UNCHANGED <<waitCurrent, pBlock>>, NEW u \in Thread, u # t, waitNotify'[u] = waitNotify[u]
  PROVE  FitAt(u, L, pos, m)'
  <1>1. FitAt(u, L, pos, m)
    BY DEF Fit
  <1>2. CASE Locks(t) \/ ~bucket.locked
    <2>1. ~Locks(u)
      BY <1>2 DEF LocksInv
    <2> QED BY <1>1, <2>1 DEF FitAt, Alone, Locks
  <1>3. CASE UNCHANGED <<waitCurrent, pBlock>>
    BY <1>1, <1>3 DEF FitAt, Alone, Locks
  <1> QED BY <1>2, <1>3

LEMMA HoldsQuiet ==
  ASSUME OfWaiters, NEW L \in SUBSET Thread, NEW T \in [Thread -> SUBSET Thread],
         NEW pos \in [Thread -> Nat], NEW r \in [Thread -> Nat], NEW m, WaitHolds(L, T, pos, r, m),
         NEW t \in Thread, Alone(t), FlagsBut(t), bucket'.block = bucket.block, WaitLinks',
         Locks(t) \/ ~bucket.locked \/ UNCHANGED <<waitCurrent, pBlock>>, HeadOf(t)' = HeadOf(t), inHand'[t] = inHand[t],
         (Drains(t)' <=> Drains(t)) \/ (HeadOf(t) = Null /\ inHand[t] = Null),
         Stays(t, L), Untouched(t), FitAt(t, L, pos, m)'
  PROVE  WaitHolds(L, T, pos, r, m)'
  <1>1. Queued(L, pos, m) /\ Carries(T, r) /\ Disjoint(L, T) /\ Placed(L, T) /\ Fit(L, pos, m) /\ WaitLinks
    BY DEF WaitHolds
  <1>2. \A u \in Thread : HeadOf(u)' = HeadOf(u) /\ inHand'[u] = inHand[u]
    BY OthersPlaced DEF Alone
  <1>3. (\A x \in L : waitBack'[x] = waitBack[x] /\ waitNotify'[x] = waitNotify[x] /\ waitNext'[x] = waitNext[x])
        /\ \A u \in Thread : \A x \in T[u] : waitBack'[x] = waitBack[x]
    BY <1>1, NotPlaced DEF Untouched
  <1>4. Queued(L, pos, m)'
    BY <1>1, <1>3, QueueSame DEF Queued
  <1>5. Carries(T, r)'
    <2>1. ASSUME NEW u \in Thread
          PROVE  Ordered(waitBack', T[u], HeadOf(u)', r)
      <3>1. Ordered(waitBack, T[u], HeadOf(u), r)
        BY <1>1 DEF Carries
      <3> QED BY <1>2, <1>3, <3>1, OrderedSame
    <2> QED BY <2>1 DEF Carries
  <1>6. Disjoint(L, T)'
    BY <1>1, <1>2 DEF Disjoint
  <1>7. Placed(L, T)'
    <2>1. ASSUME NEW b \in L
          PROVE  OnQueue(b)'
      BY <1>1, OthersPlaced DEF Placed, Stays
    <2>2. ASSUME NEW b \in Thread, b \notin L
          PROVE  (ToSet(b) => ToSet(b)') /\ (ToRelease(b) => ToRelease(b)')
      BY <2>2, OthersPlaced DEF Stays
    <2>3. ASSUME NEW u \in Thread
          PROVE  (Drains(u)' <=> Drains(u)) \/ (T[u] = {} /\ inHand[u] = Null)
      <3>1. CASE u = t
        BY <1>1, <3>1, CarriedIs
      <3>2. CASE u # t
        BY <3>2, OthersPlaced
      <3> QED BY <3>1, <3>2
    <2>4. ASSUME NEW u \in Thread, NEW b \in T[u]
          PROVE  IF Drains(u)' THEN ToSet(b)' ELSE ToRelease(b)'
      <3>1. b \in Thread /\ b \notin L
        BY <1>1 DEF Disjoint
      <3>2. IF Drains(u) THEN ToSet(b) ELSE ToRelease(b)
        BY <1>1 DEF Placed
      <3> QED BY <2>2, <2>3, <3>1, <3>2
    <2>5. ASSUME NEW u \in Thread, inHand[u] # Null
          PROVE  IF Drains(u)' THEN ToRelease(inHand[u])' ELSE ToSet(inHand[u])'
      <3>1. PICK b : b = inHand[u]
        OBVIOUS
      <3>2. b \in Thread /\ b \notin L
        BY <1>1, <2>5, <3>1 DEF Disjoint, OfWaiters, BucketType, Block
      <3>3. IF Drains(u) THEN ToRelease(b) ELSE ToSet(b)
        BY <1>1, <2>5, <3>1 DEF Placed
      <3>4. IF Drains(u)' THEN ToRelease(b)' ELSE ToSet(b)'
        BY <2>2, <2>3, <2>5, <3>2, <3>3
      <3> QED BY <1>2, <3>1, <3>4
    <2> QED BY <1>2, <2>1, <2>4, <2>5 DEF Placed
  <1>8. Fit(L, pos, m)'
    <2>1. ASSUME NEW u \in Thread, u # t
          PROVE  FitAt(u, L, pos, m)'
      BY <1>1, <2>1, FitOthers DEF OfWaiters, Untouched
    <2> QED BY <2>1 DEF Fit
  <1> QED BY <1>4, <1>5, <1>6, <1>7, <1>8 DEF WaitHolds

\* t goes on, and its block stays as it is.
LEMMA HoldsStays ==
  ASSUME OfWaiters, NEW L \in SUBSET Thread, NEW T \in [Thread -> SUBSET Thread],
         NEW pos \in [Thread -> Nat], NEW r \in [Thread -> Nat], NEW m, WaitHolds(L, T, pos, r, m),
         NEW t \in Thread, Alone(t), FlagsBut(t), bucket'.block = bucket.block,
         UNCHANGED <<waitBack, waitNotify, waitNext>>, Locks(t) \/ ~bucket.locked \/ UNCHANGED <<waitCurrent, pBlock>>,
         inHand'[t] = inHand[t], LastWake'[t] = LastWake[t], ~Drains(t)',
         ~Drains(t) \/ (pItem[t] = Null /\ LastWake[t] = Null /\ inHand[t] = Null),
         Stays(t, L), FitAt(t, L, pos, m)'
  PROVE  WaitHolds(L, T, pos, r, m)'
  <1>1. WaitLinks'
    BY DEF WaitHolds, WaitLinks
  <1>2. ~Drains(t)' /\ HeadOf(t)' = HeadOf(t) /\ inHand'[t] = inHand[t]
    BY DEF HeadOf, Drains
  <1>3. (Drains(t)' <=> Drains(t)) \/ (HeadOf(t) = Null /\ inHand[t] = Null)
    BY <1>2 DEF HeadOf
  <1>4. Untouched(t)
    BY DEF Untouched
  <1> QED BY <1>1, <1>2, <1>3, <1>4, HoldsQuiet

\* t returns, with its block nowhere.
LEMMA HoldsReturns ==
  ASSUME OfWaiters, NEW L \in SUBSET Thread, NEW T \in [Thread -> SUBSET Thread],
         NEW pos \in [Thread -> Nat], NEW r \in [Thread -> Nat], NEW m, WaitHolds(L, T, pos, r, m),
         NEW t \in Thread, OfWaiters', Alone(t), FlagsBut(t), NEW item,
         Gets(t, "idle", Waits!NoCall, Waits!Spinning, inHand[t], LastWake[t], item), bucket'.block = bucket.block,
         Waits!Reset(t), Locks(t) \/ ~bucket.locked \/ UNCHANGED <<waitCurrent, pBlock>>,
         ~Listed(t), Drains(t) => pItem[t] = Null
  PROVE  WaitHolds(L, T, pos, r, m)'
  <1>1. Fits("idle", Waits!NoCall, Waits!Spinning, inHand[t], LastWake[t], item)
    BY DEF OfWaiters, WaiterInv, WaiterAt, Gets
  <1>2. inHand[t] = Null /\ LastWake[t] = Null
    BY <1>1 DEF Fits
  <1>3. WaitLinks' /\ Untouched(t) /\ waitNotify'[t] = Null
    BY DEF WaitHolds, WaitLinks, Waits!Reset, Untouched, Block
  <1>4. HeadOf(t)' = HeadOf(t) /\ inHand'[t] = inHand[t] /\ HeadOf(t) = Null
    BY <1>2 DEF HeadOf, Drains, Gets
  <1>5. Stays(t, L)
    BY DEF Stays, Listed
  <1>6. FitAt(t, L, pos, m)'
    BY <1>3 DEF FitAt, Gets
  <1> QED BY <1>2, <1>3, <1>4, <1>5, <1>6, HoldsQuiet

LEMMA HoldsSpinReturns ==
  ASSUME OfWaiters, NEW L \in SUBSET Thread, NEW T \in [Thread -> SUBSET Thread],
         NEW pos \in [Thread -> Nat], NEW r \in [Thread -> Nat], NEW m, WaitHolds(L, T, pos, r, m),
         NEW t \in Thread, Waits!Spin(t), flag[t] # Waits!Spinning
  PROVE  WaitHolds(L, T, pos, r, m)'
  <1>1. waitPc[t] = "spin" /\ WaiterAt(t) /\ waitCall[t] \in WaitCalls
    BY DEF Waits!Spin, OfWaiters, BucketType, WaiterInv
  <1>2. /\ OfWaiters' /\ Alone(t) /\ FlagsBut(t)
        /\ Gets(t, "idle", Waits!NoCall, Waits!Spinning, inHand[t], LastWake[t], pItem[t])
    BY SpinReturnsDoes
  <1>b. bucket'.block = bucket.block
    <2>1. bucket' = bucket
      BY DEF Waits!Spin, Waits!Unlock, Waits!block
    <2> QED BY <2>1, BucketIs DEF OfWaiters, BucketType
  <1>3. Waits!Reset(t) /\ bucket'.block = bucket.block /\ (Locks(t) \/ ~bucket.locked \/ UNCHANGED <<waitCurrent, pBlock>>)
    BY <1>b, <1>1, BucketIs DEF Waits!owner, Waits!Woken, Waits!Spin, Waits!Return, OfWaiters, BucketType, Locks
  <1>4. ~Listed(t) /\ (Drains(t) => pItem[t] = Null)
    BY <1>1, CallKinds DEF Listed, OnQueue, ToSet, ToRelease, Drains, WaiterAt, Fits, InSleep, InWake, Waits!Spinning, Waits!Kernel, Waits!Woken, Waits!TimedOut
  <1> QED BY <1>2, <1>3, <1>4, HoldsReturns

LEMMA HoldsRejoinReturns ==
  ASSUME OfWaiters, NEW L \in SUBSET Thread, NEW T \in [Thread -> SUBSET Thread],
         NEW pos \in [Thread -> Nat], NEW r \in [Thread -> Nat], NEW m, WaitHolds(L, T, pos, r, m),
         NEW t \in Thread, Waits!Rejoin(t), flag[t] = Waits!Woken
  PROVE  WaitHolds(L, T, pos, r, m)'
  <1>1. waitPc[t] = "rejoin" /\ WaiterAt(t) /\ waitCall[t] \in WaitCalls
    BY DEF Waits!Rejoin, OfWaiters, BucketType, WaiterInv
  <1>2. /\ OfWaiters' /\ Alone(t) /\ FlagsBut(t)
        /\ Gets(t, "idle", Waits!NoCall, Waits!Spinning, inHand[t], LastWake[t], pItem[t])
    BY RejoinReturnsDoes
  <1>b. bucket'.block = bucket.block
    <2>1. bucket' = bucket
      BY DEF Waits!Rejoin, Waits!Unlock, Waits!block
    <2> QED BY <2>1, BucketIs DEF OfWaiters, BucketType
  <1>3. Waits!Reset(t) /\ bucket'.block = bucket.block /\ (Locks(t) \/ ~bucket.locked \/ UNCHANGED <<waitCurrent, pBlock>>)
    BY <1>b, <1>1, BucketIs DEF Waits!owner, Waits!Rejoin, Waits!Return, OfWaiters, BucketType, Locks
  <1>4. ~Listed(t) /\ (Drains(t) => pItem[t] = Null)
    BY <1>1, CallKinds DEF Listed, OnQueue, ToSet, ToRelease, Drains, WaiterAt, Fits, InSleep, InWake, Waits!Spinning, Waits!Kernel, Waits!Woken, Waits!TimedOut
  <1> QED BY <1>2, <1>3, <1>4, HoldsReturns

LEMMA HoldsWakeLeaves ==
  ASSUME OfWaiters, NEW L \in SUBSET Thread, NEW T \in [Thread -> SUBSET Thread],
         NEW pos \in [Thread -> Nat], NEW r \in [Thread -> Nat], NEW m, WaitHolds(L, T, pos, r, m),
         NEW t \in Thread, Waits!Wake(t), bucket.block = Null \/ bucket.locked
  PROVE  WaitHolds(L, T, pos, r, m)'
  <1>1. waitPc[t] = "wake" /\ WaiterAt(t) /\ waitCall[t] \in WaitCalls
    BY DEF Waits!Wake, OfWaiters, BucketType, WaiterInv
  <1>2. /\ OfWaiters' /\ Alone(t) /\ FlagsBut(t)
        /\ Gets(t, "idle", Waits!NoCall, Waits!Spinning, inHand[t], LastWake[t], pItem[t])
    BY WakeLeavesDoes
  <1>b. bucket'.block = bucket.block
    <2>1. bucket' = [bucket EXCEPT !.wakeAll = bucket.locked]
      BY DEF Waits!Wake, Waits!Unlock, Waits!block
    <2> QED BY <2>1, BucketIs DEF OfWaiters, BucketType
  <1>3. Waits!Reset(t) /\ bucket'.block = bucket.block /\ (Locks(t) \/ ~bucket.locked \/ UNCHANGED <<waitCurrent, pBlock>>)
    BY <1>b, <1>1, BucketIs DEF Waits!owner, Waits!Wake, Waits!Return, OfWaiters, BucketType, Locks
  <1>4. ~Listed(t) /\ (Drains(t) => pItem[t] = Null)
    BY <1>1, CallKinds DEF Listed, OnQueue, ToSet, ToRelease, Drains, WaiterAt, Fits, InSleep, InWake, Waits!Spinning, Waits!Kernel, Waits!Woken, Waits!TimedOut
  <1> QED BY <1>2, <1>3, <1>4, HoldsReturns

LEMMA HoldsUnlockReturns ==
  ASSUME OfWaiters, NEW L \in SUBSET Thread, NEW T \in [Thread -> SUBSET Thread],
         NEW pos \in [Thread -> Nat], NEW r \in [Thread -> Nat], NEW m, WaitHolds(L, T, pos, r, m),
         NEW t \in Thread, Waits!UnlockList(t), ~bucket.wakeAll
  PROVE  WaitHolds(L, T, pos, r, m)'
  <1>1. waitPc[t] = "unlock" /\ WaiterAt(t) /\ waitCall[t] \in WaitCalls
    BY DEF Waits!UnlockList, OfWaiters, BucketType, WaiterInv
  <1>2. /\ OfWaiters' /\ Alone(t) /\ FlagsBut(t)
        /\ Gets(t, "idle", Waits!NoCall, Waits!Spinning, inHand[t], LastWake[t], pItem[t])
    BY UnlockReturnsDoes
  <1>b. bucket'.block = bucket.block
    <2>1. bucket' = [bucket EXCEPT !.locked = FALSE]
      BY DEF Waits!UnlockList, Waits!Unlock, Waits!block
    <2> QED BY <2>1, BucketIs DEF OfWaiters, BucketType
  <1>3. Waits!Reset(t) /\ bucket'.block = bucket.block /\ (Locks(t) \/ ~bucket.locked \/ UNCHANGED <<waitCurrent, pBlock>>)
    BY <1>b, <1>1, BucketIs DEF Waits!Unlock, Waits!UnlockList, Waits!Return, OfWaiters, BucketType, Locks
  <1>4. ~Listed(t) /\ (Drains(t) => pItem[t] = Null)
    BY <1>1, CallKinds DEF Listed, OnQueue, ToSet, ToRelease, Drains, WaiterAt, Fits, InSleep, InWake, Waits!Spinning, Waits!Kernel, Waits!Woken, Waits!TimedOut
  <1> QED BY <1>2, <1>3, <1>4, HoldsReturns

LEMMA HoldsWakeListReturns ==
  ASSUME OfWaiters, NEW L \in SUBSET Thread, NEW T \in [Thread -> SUBSET Thread],
         NEW pos \in [Thread -> Nat], NEW r \in [Thread -> Nat], NEW m, WaitHolds(L, T, pos, r, m),
         NEW t \in Thread, Waits!WakeNext(t), pItem[t] = Null, ~(waitCall[t].kind = "wait" /\ ~waitCall[t].compared)
  PROVE  WaitHolds(L, T, pos, r, m)'
  <1>1. waitPc[t] = "wakeList" /\ WaiterAt(t) /\ waitCall[t] \in WaitCalls
    BY DEF Waits!WakeNext, OfWaiters, BucketType, WaiterInv
  <1>2. /\ OfWaiters' /\ Alone(t) /\ FlagsBut(t)
        /\ Gets(t, "idle", Waits!NoCall, Waits!Spinning, inHand[t], LastWake[t], pItem[t])
    BY WakeListReturnsDoes
  <1>b. bucket'.block = bucket.block
    <2>1. bucket' = bucket
      BY DEF Waits!WakeNext, Waits!Unlock, Waits!block
    <2> QED BY <2>1, BucketIs DEF OfWaiters, BucketType
  <1>3. Waits!Reset(t) /\ bucket'.block = bucket.block /\ (Locks(t) \/ ~bucket.locked \/ UNCHANGED <<waitCurrent, pBlock>>)
    BY <1>b, <1>1, BucketIs DEF Waits!owner, Waits!WakeNext, Waits!Return, OfWaiters, BucketType, Locks
  <1>4. ~Listed(t) /\ (Drains(t) => pItem[t] = Null)
    BY <1>1, CallKinds DEF Listed, OnQueue, ToSet, ToRelease, Drains, WaiterAt, Fits, InSleep, InWake, Waits!Spinning, Waits!Kernel, Waits!Woken, Waits!TimedOut
  <1> QED BY <1>2, <1>3, <1>4, HoldsReturns

LEMMA HoldsReleaseAllReturns ==
  ASSUME OfWaiters, NEW L \in SUBSET Thread, NEW T \in [Thread -> SUBSET Thread],
         NEW pos \in [Thread -> Nat], NEW r \in [Thread -> Nat], NEW m, WaitHolds(L, T, pos, r, m),
         NEW t \in Thread, Waits!ReleaseAll(t), LastWake[t] = Null, waitCall[t].bNoRemove
  PROVE  WaitHolds(L, T, pos, r, m)'
  <1>1. waitPc[t] = "releaseAll" /\ WaiterAt(t) /\ waitCall[t] \in WaitCalls
    BY DEF Waits!ReleaseAll, OfWaiters, BucketType, WaiterInv
  <1>2. /\ OfWaiters' /\ Alone(t) /\ FlagsBut(t)
        /\ Gets(t, "idle", Waits!NoCall, Waits!Spinning, inHand[t], LastWake[t], Null)
    BY ReleaseAllReturnsDoes
  <1>b. bucket'.block = bucket.block
    <2>1. bucket' = bucket
      BY DEF Waits!ReleaseAll, Waits!Unlock, Waits!block
    <2> QED BY <2>1, BucketIs DEF OfWaiters, BucketType
  <1>3. Waits!Reset(t) /\ bucket'.block = bucket.block /\ (Locks(t) \/ ~bucket.locked \/ UNCHANGED <<waitCurrent, pBlock>>)
    BY <1>b, <1>1, BucketIs DEF Waits!owner, Waits!ReleaseAll, Waits!Return, OfWaiters, BucketType, Locks
  <1>4. ~Listed(t) /\ (Drains(t) => pItem[t] = Null)
    BY <1>1, CallKinds DEF Listed, OnQueue, ToSet, ToRelease, Drains, WaiterAt, Fits, InSleep, InWake, Waits!Spinning, Waits!Kernel, Waits!Woken, Waits!TimedOut
  <1> QED BY <1>2, <1>3, <1>4, HoldsReturns

LEMMA HoldsBeginWait ==
  ASSUME OfWaiters, NEW L \in SUBSET Thread, NEW T \in [Thread -> SUBSET Thread],
         NEW pos \in [Thread -> Nat], NEW r \in [Thread -> Nat], NEW m, WaitHolds(L, T, pos, r, m),
         NEW t \in Thread, Waits!BeginWait(t)
  PROVE  WaitHolds(L, T, pos, r, m)'
  <1>1. waitPc[t] = "idle" /\ WaiterAt(t) /\ waitCall[t] \in WaitCalls
    BY DEF Waits!BeginWait, OfWaiters, BucketType, WaiterInv
  <1>2. PICK c : OfWaiters' /\ Alone(t) /\ FlagsBut(t) /\ Gets(t, "add", c, flag[t], inHand[t], LastWake[t], pItem[t])
    BY BeginWaitDoes
  <1>b. bucket'.block = bucket.block
    <2>1. bucket' = bucket
      BY DEF Waits!BeginWait, Waits!Unlock, Waits!block
    <2> QED BY <2>1, BucketIs DEF OfWaiters, BucketType
  <1>3. /\ UNCHANGED <<waitBack, waitNotify, waitNext>> /\ bucket'.block = bucket.block
        /\ Locks(t) \/ ~bucket.locked \/ UNCHANGED <<waitCurrent, pBlock>>
    BY <1>b, <1>1, BucketIs DEF Waits!BeginWait, Waits!block, Waits!links, Waits!owner, OfWaiters, BucketType, Locks
  <1>4. /\ inHand'[t] = inHand[t] /\ LastWake'[t] = LastWake[t] /\ ~Drains(t)'
        /\ ~Drains(t) \/ (pItem[t] = Null /\ LastWake[t] = Null /\ inHand[t] = Null)
    BY <1>1, <1>2 DEF Drains, WaiterAt, Fits, Gets
  <1>5. Stays(t, L)
    BY <1>1, <1>2, CallKinds DEF Stays, OnQueue, ToSet, ToRelease, Drains, Gets, WaiterAt, Fits, Waits!Spinning, Waits!Kernel, Waits!Woken, Waits!TimedOut
  <1>6. FitAt(t, L, pos, m)'
    BY <1>1, <1>2, <1>3 DEF FitAt, Gets, WaitHolds, Fit
  <1>7. Alone(t) /\ FlagsBut(t)
    BY <1>2
  <1> QED BY <1>3, <1>4, <1>5, <1>6, <1>7, HoldsStays

LEMMA HoldsBeginWake ==
  ASSUME OfWaiters, NEW L \in SUBSET Thread, NEW T \in [Thread -> SUBSET Thread],
         NEW pos \in [Thread -> Nat], NEW r \in [Thread -> Nat], NEW m, WaitHolds(L, T, pos, r, m),
         NEW t \in Thread, Waits!BeginWake(t)
  PROVE  WaitHolds(L, T, pos, r, m)'
  <1>1. waitPc[t] = "idle" /\ WaiterAt(t) /\ waitCall[t] \in WaitCalls
    BY DEF Waits!BeginWake, OfWaiters, BucketType, WaiterInv
  <1>2. PICK c : OfWaiters' /\ Alone(t) /\ FlagsBut(t) /\ Gets(t, "wake", c, flag[t], inHand[t], LastWake[t], pItem[t])
    BY BeginWakeDoes
  <1>b. bucket'.block = bucket.block
    <2>1. bucket' = bucket
      BY DEF Waits!BeginWake, Waits!Unlock, Waits!block
    <2> QED BY <2>1, BucketIs DEF OfWaiters, BucketType
  <1>3. /\ UNCHANGED <<waitBack, waitNotify, waitNext>> /\ bucket'.block = bucket.block
        /\ Locks(t) \/ ~bucket.locked \/ UNCHANGED <<waitCurrent, pBlock>>
    BY <1>b, <1>1, BucketIs DEF Waits!BeginWake, Waits!block, Waits!links, Waits!owner, OfWaiters, BucketType, Locks
  <1>4. /\ inHand'[t] = inHand[t] /\ LastWake'[t] = LastWake[t] /\ ~Drains(t)'
        /\ ~Drains(t) \/ (pItem[t] = Null /\ LastWake[t] = Null /\ inHand[t] = Null)
    BY <1>1, <1>2 DEF Drains, WaiterAt, Fits, Gets
  <1>5. Stays(t, L)
    BY <1>1, <1>2, CallKinds DEF Stays, OnQueue, ToSet, ToRelease, Drains, Gets, WaiterAt, Fits, Waits!Spinning, Waits!Kernel, Waits!Woken, Waits!TimedOut
  <1>6. FitAt(t, L, pos, m)'
    BY <1>2 DEF FitAt, Gets
  <1>7. Alone(t) /\ FlagsBut(t)
    BY <1>2
  <1> QED BY <1>3, <1>4, <1>5, <1>6, <1>7, HoldsStays

LEMMA HoldsLook ==
  ASSUME OfWaiters, NEW L \in SUBSET Thread, NEW T \in [Thread -> SUBSET Thread],
         NEW pos \in [Thread -> Nat], NEW r \in [Thread -> Nat], NEW m, WaitHolds(L, T, pos, r, m),
         NEW t \in Thread, Waits!Look(t)
  PROVE  WaitHolds(L, T, pos, r, m)'
  <1>1. waitPc[t] = "look" /\ WaiterAt(t) /\ waitCall[t] \in WaitCalls
    BY DEF Waits!Look, OfWaiters, BucketType, WaiterInv
  <1>2. OfWaiters' /\ Alone(t) /\ FlagsBut(t) /\ Gets(t, "optimize", waitCall[t], flag[t], inHand[t], LastWake[t], pItem[t])
    BY LookDoes
  <1>b. bucket'.block = bucket.block
    <2>1. bucket' = bucket
      BY DEF Waits!Look, Waits!Unlock, Waits!block
    <2> QED BY <2>1, BucketIs DEF OfWaiters, BucketType
  <1>3. /\ UNCHANGED <<waitBack, waitNotify, waitNext>> /\ bucket'.block = bucket.block
        /\ Locks(t) \/ ~bucket.locked \/ UNCHANGED <<waitCurrent, pBlock>>
    BY <1>b, <1>1, BucketIs DEF Waits!Look, Waits!block, Waits!links, Waits!owner, OfWaiters, BucketType, Locks
  <1>4. /\ inHand'[t] = inHand[t] /\ LastWake'[t] = LastWake[t] /\ ~Drains(t)'
        /\ ~Drains(t) \/ (pItem[t] = Null /\ LastWake[t] = Null /\ inHand[t] = Null)
    BY <1>1, <1>2 DEF Drains, WaiterAt, Fits, Gets
  <1>5. Stays(t, L)
    BY <1>1, <1>2, CallKinds DEF Stays, OnQueue, ToSet, ToRelease, Drains, Gets, WaiterAt, Fits, Waits!Spinning, Waits!Kernel, Waits!Woken, Waits!TimedOut
  <1>6. FitAt(t, L, pos, m)'
    <2>1. t \in L /\ WaitLinks /\ Queued(L, pos, m)
      BY <1>1 DEF WaitHolds, Fit, FitAt
    <2>2. bucket.block \in L /\ m \in L /\ pos[m] <= pos[bucket.block]
      BY <2>1, QueueIs
    <2>3. waitCurrent'.block = bucket.block
      BY DEF Waits!Look
    <2> QED BY <1>2, <2>1, <2>2, <2>3 DEF FitAt, Gets
  <1>7. Alone(t) /\ FlagsBut(t)
    BY <1>2
  <1> QED BY <1>3, <1>4, <1>5, <1>6, <1>7, HoldsStays

LEMMA HoldsCompare ==
  ASSUME OfWaiters, NEW L \in SUBSET Thread, NEW T \in [Thread -> SUBSET Thread],
         NEW pos \in [Thread -> Nat], NEW r \in [Thread -> Nat], NEW m, WaitHolds(L, T, pos, r, m),
         NEW t \in Thread, Waits!Compare(t)
  PROVE  WaitHolds(L, T, pos, r, m)'
  <1>1. waitPc[t] = "compare" /\ WaiterAt(t) /\ waitCall[t] \in WaitCalls
    BY DEF Waits!Compare, OfWaiters, BucketType, WaiterInv
  <1>p. PICK p : p = IF changed[t] THEN "remove" ELSE "spin"
    OBVIOUS
  <1>c. PICK c : c = [waitCall[t] EXCEPT !.compared = TRUE]
    OBVIOUS
  <1>2. OfWaiters' /\ Alone(t) /\ FlagsBut(t) /\ Gets(t, p, c, flag[t], inHand[t], LastWake[t], pItem[t])
    BY <1>p, <1>c, CompareDoes
  <1>b. bucket'.block = bucket.block
    <2>1. bucket' = bucket
      BY DEF Waits!Compare, Waits!Unlock, Waits!block
    <2> QED BY <2>1, BucketIs DEF OfWaiters, BucketType
  <1>3. /\ UNCHANGED <<waitBack, waitNotify, waitNext>> /\ bucket'.block = bucket.block
        /\ Locks(t) \/ ~bucket.locked \/ UNCHANGED <<waitCurrent, pBlock>>
    BY <1>b, <1>1, BucketIs DEF Waits!Compare, Waits!block, Waits!links, Waits!owner, OfWaiters, BucketType, Locks
  <1>4. /\ inHand'[t] = inHand[t] /\ LastWake'[t] = LastWake[t] /\ ~Drains(t)'
        /\ ~Drains(t) \/ (pItem[t] = Null /\ LastWake[t] = Null /\ inHand[t] = Null)
    BY <1>p, <1>c, <1>1, <1>2 DEF Drains, WaiterAt, Fits, Gets
  <1>5. Stays(t, L)
    BY <1>p, <1>c, <1>1, <1>2, CallKinds DEF Stays, OnQueue, ToSet, ToRelease, Drains, Gets, WaiterAt, Fits, Waits!Spinning, Waits!Kernel, Waits!Woken, Waits!TimedOut
  <1>6. FitAt(t, L, pos, m)'
    BY <1>p, <1>c, <1>2 DEF FitAt, Gets
  <1>7. Alone(t) /\ FlagsBut(t)
    BY <1>2
  <1> QED BY <1>3, <1>4, <1>5, <1>6, <1>7, HoldsStays

LEMMA HoldsSpinEnds ==
  ASSUME OfWaiters, NEW L \in SUBSET Thread, NEW T \in [Thread -> SUBSET Thread],
         NEW pos \in [Thread -> Nat], NEW r \in [Thread -> Nat], NEW m, WaitHolds(L, T, pos, r, m),
         NEW t \in Thread, Waits!Spin(t), flag[t] = Waits!Spinning
  PROVE  WaitHolds(L, T, pos, r, m)'
  <1>1. waitPc[t] = "spin" /\ WaiterAt(t) /\ waitCall[t] \in WaitCalls
    BY DEF Waits!Spin, OfWaiters, BucketType, WaiterInv
  <1>2. OfWaiters' /\ Alone(t) /\ FlagsBut(t) /\ Gets(t, "kernel", waitCall[t], Waits!Kernel, inHand[t], LastWake[t], pItem[t])
    BY SpinEndsDoes
  <1>b. bucket'.block = bucket.block
    <2>1. bucket' = bucket
      BY DEF Waits!Spin, Waits!Unlock, Waits!block
    <2> QED BY <2>1, BucketIs DEF OfWaiters, BucketType
  <1>3. /\ UNCHANGED <<waitBack, waitNotify, waitNext>> /\ bucket'.block = bucket.block
        /\ Locks(t) \/ ~bucket.locked \/ UNCHANGED <<waitCurrent, pBlock>>
    BY <1>b, <1>1, BucketIs DEF Waits!Spin, Waits!block, Waits!links, Waits!owner, OfWaiters, BucketType, Locks
  <1>4. /\ inHand'[t] = inHand[t] /\ LastWake'[t] = LastWake[t] /\ ~Drains(t)'
        /\ ~Drains(t) \/ (pItem[t] = Null /\ LastWake[t] = Null /\ inHand[t] = Null)
    BY <1>1, <1>2 DEF Drains, WaiterAt, Fits, Gets
  <1>5. Stays(t, L)
    BY <1>1, <1>2, CallKinds DEF Stays, OnQueue, ToSet, ToRelease, Drains, Gets, WaiterAt, Fits, Waits!Spinning, Waits!Kernel, Waits!Woken, Waits!TimedOut
  <1>6. FitAt(t, L, pos, m)'
    BY <1>2 DEF FitAt, Gets
  <1>7. Alone(t) /\ FlagsBut(t)
    BY <1>2
  <1> QED BY <1>3, <1>4, <1>5, <1>6, <1>7, HoldsStays

LEMMA HoldsWaitTimeOut ==
  ASSUME OfWaiters, NEW L \in SUBSET Thread, NEW T \in [Thread -> SUBSET Thread],
         NEW pos \in [Thread -> Nat], NEW r \in [Thread -> Nat], NEW m, WaitHolds(L, T, pos, r, m),
         NEW t \in Thread, Waits!TimeOut(t)
  PROVE  WaitHolds(L, T, pos, r, m)'
  <1>1. waitPc[t] = "kernel" /\ WaiterAt(t) /\ waitCall[t] \in WaitCalls
    BY DEF Waits!TimeOut, OfWaiters, BucketType, WaiterInv
  <1>p. PICK p : p = IF flag[t] = Waits!Woken THEN "kernelAgain" ELSE "remove"
    OBVIOUS
  <1>c. PICK c : c = waitCall[t]
    OBVIOUS
  <1>2. OfWaiters' /\ Alone(t) /\ FlagsBut(t) /\ Gets(t, p, c, Waits!TimedOut, inHand[t], LastWake[t], pItem[t])
    BY <1>p, <1>c, TimeOutDoes
  <1>b. bucket'.block = bucket.block
    <2>1. bucket' = bucket
      BY DEF Waits!TimeOut, Waits!Unlock, Waits!block
    <2> QED BY <2>1, BucketIs DEF OfWaiters, BucketType
  <1>3. /\ UNCHANGED <<waitBack, waitNotify, waitNext>> /\ bucket'.block = bucket.block
        /\ Locks(t) \/ ~bucket.locked \/ UNCHANGED <<waitCurrent, pBlock>>
    BY <1>b, <1>1, BucketIs DEF Waits!TimeOut, Waits!block, Waits!links, Waits!owner, OfWaiters, BucketType, Locks
  <1>4. /\ inHand'[t] = inHand[t] /\ LastWake'[t] = LastWake[t] /\ ~Drains(t)'
        /\ ~Drains(t) \/ (pItem[t] = Null /\ LastWake[t] = Null /\ inHand[t] = Null)
    BY <1>p, <1>c, <1>1, <1>2 DEF Drains, WaiterAt, Fits, Gets
  <1>5. Stays(t, L)
    BY <1>p, <1>c, <1>1, <1>2, CallKinds DEF Stays, OnQueue, ToSet, ToRelease, Drains, Gets, WaiterAt, Fits, Waits!Spinning, Waits!Kernel, Waits!Woken, Waits!TimedOut
  <1>6. FitAt(t, L, pos, m)'
    BY <1>p, <1>c, <1>2 DEF FitAt, Gets
  <1>7. Alone(t) /\ FlagsBut(t)
    BY <1>2
  <1> QED BY <1>3, <1>4, <1>5, <1>6, <1>7, HoldsStays

LEMMA HoldsNotFound ==
  ASSUME OfWaiters, NEW L \in SUBSET Thread, NEW T \in [Thread -> SUBSET Thread],
         NEW pos \in [Thread -> Nat], NEW r \in [Thread -> Nat], NEW m, WaitHolds(L, T, pos, r, m),
         NEW t \in Thread, Waits!NotFound(t)
  PROVE  WaitHolds(L, T, pos, r, m)'
  <1>1. waitPc[t] = "notFound" /\ WaiterAt(t) /\ waitCall[t] \in WaitCalls
    BY DEF Waits!NotFound, OfWaiters, BucketType, WaiterInv
  <1>p. PICK p : p = IF flag[t] = Waits!Woken THEN "unlock" ELSE "kernelLocked"
    OBVIOUS
  <1>c. PICK c : c = waitCall[t]
    OBVIOUS
  <1>2. OfWaiters' /\ Alone(t) /\ FlagsBut(t) /\ Gets(t, p, c, Waits!Kernel, inHand[t], LastWake[t], pItem[t])
    BY <1>p, <1>c, NotFoundDoes
  <1>b. bucket'.block = bucket.block
    <2>1. bucket' = bucket
      BY DEF Waits!NotFound, Waits!Unlock, Waits!block
    <2> QED BY <2>1, BucketIs DEF OfWaiters, BucketType
  <1>3. /\ UNCHANGED <<waitBack, waitNotify, waitNext>> /\ bucket'.block = bucket.block
        /\ Locks(t) \/ ~bucket.locked \/ UNCHANGED <<waitCurrent, pBlock>>
    BY <1>b, <1>1, BucketIs DEF Waits!NotFound, Waits!block, Waits!links, Waits!owner, OfWaiters, BucketType, Locks
  <1>4. /\ inHand'[t] = inHand[t] /\ LastWake'[t] = LastWake[t] /\ ~Drains(t)'
        /\ ~Drains(t) \/ (pItem[t] = Null /\ LastWake[t] = Null /\ inHand[t] = Null)
    BY <1>p, <1>c, <1>1, <1>2 DEF Drains, WaiterAt, Fits, Gets
  <1>5. Stays(t, L)
    BY <1>p, <1>c, <1>1, <1>2, CallKinds DEF Stays, OnQueue, ToSet, ToRelease, Drains, Gets, WaiterAt, Fits, Waits!Spinning, Waits!Kernel, Waits!Woken, Waits!TimedOut
  <1>6. FitAt(t, L, pos, m)'
    BY <1>p, <1>c, <1>2 DEF FitAt, Gets
  <1>7. Alone(t) /\ FlagsBut(t)
    BY <1>2
  <1> QED BY <1>3, <1>4, <1>5, <1>6, <1>7, HoldsStays

LEMMA HoldsRejoinSpins ==
  ASSUME OfWaiters, NEW L \in SUBSET Thread, NEW T \in [Thread -> SUBSET Thread],
         NEW pos \in [Thread -> Nat], NEW r \in [Thread -> Nat], NEW m, WaitHolds(L, T, pos, r, m),
         NEW t \in Thread, Waits!Rejoin(t), flag[t] # Waits!Woken
  PROVE  WaitHolds(L, T, pos, r, m)'
  <1>1. waitPc[t] = "rejoin" /\ WaiterAt(t) /\ waitCall[t] \in WaitCalls
    BY DEF Waits!Rejoin, OfWaiters, BucketType, WaiterInv
  <1>p. PICK p : p = "spin"
    OBVIOUS
  <1>c. PICK c : c = [waitCall[t] EXCEPT !.timed = FALSE]
    OBVIOUS
  <1>2. OfWaiters' /\ Alone(t) /\ FlagsBut(t) /\ Gets(t, p, c, Waits!Spinning, inHand[t], LastWake[t], pItem[t])
    BY <1>p, <1>c, RejoinSpinsDoes
  <1>b. bucket'.block = bucket.block
    <2>1. bucket' = bucket
      BY DEF Waits!Rejoin, Waits!Unlock, Waits!block
    <2> QED BY <2>1, BucketIs DEF OfWaiters, BucketType
  <1>3. /\ UNCHANGED <<waitBack, waitNotify, waitNext>> /\ bucket'.block = bucket.block
        /\ Locks(t) \/ ~bucket.locked \/ UNCHANGED <<waitCurrent, pBlock>>
    BY <1>b, <1>1, BucketIs DEF Waits!Rejoin, Waits!block, Waits!links, Waits!owner, OfWaiters, BucketType, Locks
  <1>4. /\ inHand'[t] = inHand[t] /\ LastWake'[t] = LastWake[t] /\ ~Drains(t)'
        /\ ~Drains(t) \/ (pItem[t] = Null /\ LastWake[t] = Null /\ inHand[t] = Null)
    BY <1>p, <1>c, <1>1, <1>2 DEF Drains, WaiterAt, Fits, Gets
  <1>5. Stays(t, L)
    BY <1>p, <1>c, <1>1, <1>2, CallKinds DEF Stays, OnQueue, ToSet, ToRelease, Drains, Gets, WaiterAt, Fits, Waits!Spinning, Waits!Kernel, Waits!Woken, Waits!TimedOut
  <1>6. FitAt(t, L, pos, m)'
    BY <1>p, <1>c, <1>2 DEF FitAt, Gets
  <1>7. Alone(t) /\ FlagsBut(t)
    BY <1>2
  <1> QED BY <1>3, <1>4, <1>5, <1>6, <1>7, HoldsStays

LEMMA HoldsScanned ==
  ASSUME OfWaiters, NEW L \in SUBSET Thread, NEW T \in [Thread -> SUBSET Thread],
         NEW pos \in [Thread -> Nat], NEW r \in [Thread -> Nat], NEW m, WaitHolds(L, T, pos, r, m),
         NEW t \in Thread, Waits!Scanned(t)
  PROVE  WaitHolds(L, T, pos, r, m)'
  <1>1. waitPc[t] = "scan" /\ WaiterAt(t) /\ waitCall[t] \in WaitCalls
    BY DEF Waits!Scanned, OfWaiters, BucketType, WaiterInv
  <1>2. OfWaiters' /\ Alone(t) /\ FlagsBut(t) /\ Gets(t, "releaseAll", waitCall[t], flag[t], inHand[t], LastWake[t], pItem[t])
    BY ScannedDoes
  <1>b. bucket'.block = bucket.block
    <2>1. bucket' = bucket
      BY DEF Waits!Scanned, Waits!Unlock, Waits!block
    <2> QED BY <2>1, BucketIs DEF OfWaiters, BucketType
  <1>3. /\ UNCHANGED <<waitBack, waitNotify, waitNext>> /\ bucket'.block = bucket.block
        /\ Locks(t) \/ ~bucket.locked \/ UNCHANGED <<waitCurrent, pBlock>>
    BY <1>b, <1>1, BucketIs DEF Waits!Scanned, Waits!block, Waits!links, Waits!owner, OfWaiters, BucketType, Locks
  <1>4. /\ inHand'[t] = inHand[t] /\ LastWake'[t] = LastWake[t] /\ ~Drains(t)'
        /\ ~Drains(t) \/ (pItem[t] = Null /\ LastWake[t] = Null /\ inHand[t] = Null)
    BY <1>1, <1>2 DEF Drains, WaiterAt, Fits, Gets
  <1>5. Stays(t, L)
    BY <1>1, <1>2, CallKinds DEF Stays, OnQueue, ToSet, ToRelease, Drains, Gets, WaiterAt, Fits, Waits!Spinning, Waits!Kernel, Waits!Woken, Waits!TimedOut
  <1>6. FitAt(t, L, pos, m)'
    BY <1>2 DEF FitAt, Gets
  <1>7. Alone(t) /\ FlagsBut(t)
    BY <1>2
  <1> QED BY <1>3, <1>4, <1>5, <1>6, <1>7, HoldsStays

LEMMA HoldsRemoveAsks ==
  ASSUME OfWaiters, NEW L \in SUBSET Thread, NEW T \in [Thread -> SUBSET Thread],
         NEW pos \in [Thread -> Nat], NEW r \in [Thread -> Nat], NEW m, WaitHolds(L, T, pos, r, m),
         NEW t \in Thread, Waits!RemoveWaitBlock(t), bucket.block = Null \/ bucket.locked
  PROVE  WaitHolds(L, T, pos, r, m)'
  <1>1. waitPc[t] = "remove" /\ WaiterAt(t) /\ waitCall[t] \in WaitCalls
    BY DEF Waits!RemoveWaitBlock, OfWaiters, BucketType, WaiterInv
  <1>2. OfWaiters' /\ Alone(t) /\ FlagsBut(t) /\ Gets(t, "rejoin", waitCall[t], flag[t], inHand[t], LastWake[t], pItem[t])
    BY RemoveAsksDoes
  <1>b. bucket'.block = bucket.block
    <2>1. bucket' = [bucket EXCEPT !.wakeAll = bucket.locked]
      BY DEF Waits!RemoveWaitBlock, Waits!Unlock, Waits!block
    <2> QED BY <2>1, BucketIs DEF OfWaiters, BucketType
  <1>3. /\ UNCHANGED <<waitBack, waitNotify, waitNext>> /\ bucket'.block = bucket.block
        /\ Locks(t) \/ ~bucket.locked \/ UNCHANGED <<waitCurrent, pBlock>>
    BY <1>b, <1>1, BucketIs DEF Waits!RemoveWaitBlock, Waits!block, Waits!links, Waits!owner, OfWaiters, BucketType, Locks
  <1>4. /\ inHand'[t] = inHand[t] /\ LastWake'[t] = LastWake[t] /\ ~Drains(t)'
        /\ ~Drains(t) \/ (pItem[t] = Null /\ LastWake[t] = Null /\ inHand[t] = Null)
    BY <1>1, <1>2 DEF Drains, WaiterAt, Fits, Gets
  <1>5. Stays(t, L)
    BY <1>1, <1>2, CallKinds DEF Stays, OnQueue, ToSet, ToRelease, Drains, Gets, WaiterAt, Fits, Waits!Spinning, Waits!Kernel, Waits!Woken, Waits!TimedOut
  <1>6. FitAt(t, L, pos, m)'
    BY <1>2 DEF FitAt, Gets
  <1>7. Alone(t) /\ FlagsBut(t)
    BY <1>2
  <1> QED BY <1>3, <1>4, <1>5, <1>6, <1>7, HoldsStays

LEMMA HoldsRemoveFinds ==
  ASSUME OfWaiters, NEW L \in SUBSET Thread, NEW T \in [Thread -> SUBSET Thread],
         NEW pos \in [Thread -> Nat], NEW r \in [Thread -> Nat], NEW m, WaitHolds(L, T, pos, r, m),
         NEW t \in Thread, Waits!RemoveWaitBlock(t), ~(bucket.block = Null \/ bucket.locked), bucket.block = t
  PROVE  WaitHolds(L, T, pos, r, m)'
  <1>1. waitPc[t] = "remove" /\ WaiterAt(t) /\ waitCall[t] \in WaitCalls
    BY DEF Waits!RemoveWaitBlock, OfWaiters, BucketType, WaiterInv
  <1>2. OfWaiters' /\ Alone(t) /\ FlagsBut(t) /\ Gets(t, "removeFirst", waitCall[t], flag[t], inHand[t], LastWake[t], pItem[t])
    BY RemoveFindsDoes
  <1>b. bucket'.block = bucket.block
    <2>1. bucket' = [bucket EXCEPT !.locked = TRUE]
      BY DEF Waits!RemoveWaitBlock, Waits!Unlock, Waits!block
    <2> QED BY <2>1, BucketIs DEF OfWaiters, BucketType
  <1>3. /\ UNCHANGED <<waitBack, waitNotify, waitNext>> /\ bucket'.block = bucket.block
        /\ Locks(t) \/ ~bucket.locked \/ UNCHANGED <<waitCurrent, pBlock>>
    BY <1>b, <1>1, BucketIs DEF Waits!RemoveWaitBlock, Waits!block, Waits!links, Waits!owner, OfWaiters, BucketType, Locks
  <1>4. /\ inHand'[t] = inHand[t] /\ LastWake'[t] = LastWake[t] /\ ~Drains(t)'
        /\ ~Drains(t) \/ (pItem[t] = Null /\ LastWake[t] = Null /\ inHand[t] = Null)
    BY <1>1, <1>2 DEF Drains, WaiterAt, Fits, Gets
  <1>5. Stays(t, L)
    <2>1. WaitLinks /\ Queued(L, pos, m)
      BY DEF WaitHolds
    <2>2. t \in L
      BY <2>1, QueueIs, NullIsNoThread
    <2> QED BY <1>1, <1>2, <2>2 DEF Stays, OnQueue, Gets
  <1>6. FitAt(t, L, pos, m)'
    <2>1. WaitLinks /\ Queued(L, pos, m)
      BY DEF WaitHolds
    <2>2. t \in L
      BY <2>1, QueueIs, NullIsNoThread
    <2> QED BY <1>2, <2>2 DEF FitAt, Gets
  <1>7. Alone(t) /\ FlagsBut(t)
    BY <1>2
  <1> QED BY <1>3, <1>4, <1>5, <1>6, <1>7, HoldsStays

LEMMA HoldsRemoveNewestAgain ==
  ASSUME OfWaiters, NEW L \in SUBSET Thread, NEW T \in [Thread -> SUBSET Thread],
         NEW pos \in [Thread -> Nat], NEW r \in [Thread -> Nat], NEW m, WaitHolds(L, T, pos, r, m),
         NEW t \in Thread, Waits!RemoveNewest(t), bucket # waitCurrent, bucket.block = t
  PROVE  WaitHolds(L, T, pos, r, m)'
  <1>1. waitPc[t] = "removeFirst" /\ WaiterAt(t) /\ waitCall[t] \in WaitCalls
    BY DEF Waits!RemoveNewest, OfWaiters, BucketType, WaiterInv
  <1>2. OfWaiters' /\ Alone(t) /\ FlagsBut(t) /\ Gets(t, "removeFirst", waitCall[t], flag[t], inHand[t], LastWake[t], pItem[t])
    BY RemoveNewestAgainDoes
  <1>b. bucket'.block = bucket.block
    <2>1. bucket' = bucket
      BY DEF Waits!RemoveNewest, Waits!Unlock, Waits!block
    <2> QED BY <2>1, BucketIs DEF OfWaiters, BucketType
  <1>3. /\ UNCHANGED <<waitBack, waitNotify, waitNext>> /\ bucket'.block = bucket.block
        /\ Locks(t) \/ ~bucket.locked \/ UNCHANGED <<waitCurrent, pBlock>>
    BY <1>b, <1>1, BucketIs DEF Waits!RemoveNewest, Waits!block, Waits!links, Waits!owner, OfWaiters, BucketType, Locks
  <1>4. /\ inHand'[t] = inHand[t] /\ LastWake'[t] = LastWake[t] /\ ~Drains(t)'
        /\ ~Drains(t) \/ (pItem[t] = Null /\ LastWake[t] = Null /\ inHand[t] = Null)
    BY <1>1, <1>2 DEF Drains, WaiterAt, Fits, Gets
  <1>5. Stays(t, L)
    <2>1. WaitLinks /\ Queued(L, pos, m)
      BY DEF WaitHolds
    <2>2. t \in L
      BY <2>1, QueueIs, NullIsNoThread
    <2> QED BY <1>1, <1>2, <2>2 DEF Stays, OnQueue, Gets
  <1>6. FitAt(t, L, pos, m)'
    <2>1. WaitLinks /\ Queued(L, pos, m)
      BY DEF WaitHolds
    <2>2. t \in L
      BY <2>1, QueueIs, NullIsNoThread
    <2> QED BY <1>2, <2>2 DEF FitAt, Gets
  <1>7. Alone(t) /\ FlagsBut(t)
    BY <1>2
  <1> QED BY <1>3, <1>4, <1>5, <1>6, <1>7, HoldsStays

LEMMA HoldsWakeListStays ==
  ASSUME OfWaiters, NEW L \in SUBSET Thread, NEW T \in [Thread -> SUBSET Thread],
         NEW pos \in [Thread -> Nat], NEW r \in [Thread -> Nat], NEW m, WaitHolds(L, T, pos, r, m),
         NEW t \in Thread, Waits!WakeNext(t), pItem[t] = Null, waitCall[t].kind = "wait", ~waitCall[t].compared
  PROVE  WaitHolds(L, T, pos, r, m)'
  <1>1. waitPc[t] = "wakeList" /\ WaiterAt(t) /\ waitCall[t] \in WaitCalls
    BY DEF Waits!WakeNext, OfWaiters, BucketType, WaiterInv
  <1>2. OfWaiters' /\ Alone(t) /\ FlagsBut(t) /\ Gets(t, "compare", waitCall[t], flag[t], inHand[t], LastWake[t], pItem[t])
    BY WakeListStaysDoes
  <1>b. bucket'.block = bucket.block
    <2>1. bucket' = bucket
      BY DEF Waits!WakeNext, Waits!Unlock, Waits!block
    <2> QED BY <2>1, BucketIs DEF OfWaiters, BucketType
  <1>3. /\ UNCHANGED <<waitBack, waitNotify, waitNext>> /\ bucket'.block = bucket.block
        /\ Locks(t) \/ ~bucket.locked \/ UNCHANGED <<waitCurrent, pBlock>>
    BY <1>b, <1>1, BucketIs DEF Waits!WakeNext, Waits!block, Waits!links, Waits!owner, OfWaiters, BucketType, Locks
  <1>4. /\ inHand'[t] = inHand[t] /\ LastWake'[t] = LastWake[t] /\ ~Drains(t)'
        /\ ~Drains(t) \/ (pItem[t] = Null /\ LastWake[t] = Null /\ inHand[t] = Null)
    BY <1>1, <1>2 DEF Drains, WaiterAt, Fits, Gets
  <1>5. Stays(t, L)
    BY <1>1, <1>2, CallKinds DEF Stays, OnQueue, ToSet, ToRelease, Drains, Gets, WaiterAt, Fits, Waits!Spinning, Waits!Kernel, Waits!Woken, Waits!TimedOut
  <1>6. FitAt(t, L, pos, m)'
    BY <1>2 DEF FitAt, Gets
  <1>7. Alone(t) /\ FlagsBut(t)
    BY <1>2
  <1> QED BY <1>3, <1>4, <1>5, <1>6, <1>7, HoldsStays

LEMMA HoldsReleaseAllUnlocks ==
  ASSUME OfWaiters, NEW L \in SUBSET Thread, NEW T \in [Thread -> SUBSET Thread],
         NEW pos \in [Thread -> Nat], NEW r \in [Thread -> Nat], NEW m, WaitHolds(L, T, pos, r, m),
         NEW t \in Thread, Waits!ReleaseAll(t), LastWake[t] = Null, ~waitCall[t].bNoRemove
  PROVE  WaitHolds(L, T, pos, r, m)'
  <1>1. waitPc[t] = "releaseAll" /\ WaiterAt(t) /\ waitCall[t] \in WaitCalls
    BY DEF Waits!ReleaseAll, OfWaiters, BucketType, WaiterInv
  <1>2. OfWaiters' /\ Alone(t) /\ FlagsBut(t) /\ Gets(t, "unlock", waitCall[t], flag[t], inHand[t], LastWake[t], Null)
    BY ReleaseAllUnlocksDoes
  <1>b. bucket'.block = bucket.block
    <2>1. bucket' = bucket
      BY DEF Waits!ReleaseAll, Waits!Unlock, Waits!block
    <2> QED BY <2>1, BucketIs DEF OfWaiters, BucketType
  <1>3. /\ UNCHANGED <<waitBack, waitNotify, waitNext>> /\ bucket'.block = bucket.block
        /\ Locks(t) \/ ~bucket.locked \/ UNCHANGED <<waitCurrent, pBlock>>
    BY <1>b, <1>1, BucketIs DEF Waits!ReleaseAll, Waits!block, Waits!links, Waits!owner, OfWaiters, BucketType, Locks
  <1>4. /\ inHand'[t] = inHand[t] /\ LastWake'[t] = LastWake[t] /\ ~Drains(t)'
        /\ ~Drains(t) \/ (pItem[t] = Null /\ LastWake[t] = Null /\ inHand[t] = Null)
    BY <1>1, <1>2 DEF Drains, WaiterAt, Fits, Gets
  <1>5. Stays(t, L)
    BY <1>1, <1>2, CallKinds DEF Stays, OnQueue, ToSet, ToRelease, Drains, Gets, WaiterAt, Fits, Waits!Spinning, Waits!Kernel, Waits!Woken, Waits!TimedOut
  <1>6. FitAt(t, L, pos, m)'
    BY <1>2 DEF FitAt, Gets
  <1>7. Alone(t) /\ FlagsBut(t)
    BY <1>2
  <1> QED BY <1>3, <1>4, <1>5, <1>6, <1>7, HoldsStays

-----------------------------------------------------------------------------
(* Steps that change the chains.                                           *)

Hand(t) == {inHand[t]} \ {Null}

\* The others' chains stay; of the list, the chain of t and what t has in hand, L, T[t] and
\* the hand become L1, S and the new hand, perhaps with t as a new block.
Splits(t, L, T, L1, S) ==
  /\ L1 \cap S = {} /\ Hand(t)' \cap (L1 \cup S) = {}
  /\ \A x \in L1 \cup S \cup Hand(t)' : x \in L \cup T[t] \cup Hand(t) \/ (x = t /\ ~Listed(t))
OthersKept(t, T, r, r1) ==
  \A u \in Thread : u # t => \A x \in T[u] : waitBack'[x] = waitBack[x] /\ r1[x] = r[x]
Sits(t, L1, S) ==
  /\ \A x \in L1 : OnQueue(x)'
  /\ \A x \in S : IF Drains(t)' THEN ToSet(x)' ELSE ToRelease(x)'
  /\ inHand'[t] # Null => IF Drains(t)' THEN ToRelease(inHand[t])' ELSE ToSet(inHand[t])'

\* One whose flag and whose place stay as they are.
LEMMA StillPlaced ==
  ASSUME NEW t \in Thread, NEW b \in Thread, Alone(t), FlagsBut(b), NEW x \in Thread, x # t, x # b
  PROVE  (OnQueue(x)' <=> OnQueue(x)) /\ (ToSet(x)' <=> ToSet(x)) /\ (ToRelease(x)' <=> ToRelease(x))
  BY DEF Alone, FlagsBut, OnQueue, ToSet, ToRelease, Drains

LEMMA OthersHeld ==
  ASSUME NEW t \in Thread, Alone(t), NEW u \in Thread, u # t
  PROVE  (Drains(u)' <=> Drains(u)) /\ HeadOf(u)' = HeadOf(u) /\ inHand'[u] = inHand[u]
  BY DEF Alone, Drains, HeadOf

LEMMA HoldsMoves ==
  ASSUME OfWaiters, NEW L \in SUBSET Thread, NEW T \in [Thread -> SUBSET Thread],
         NEW pos \in [Thread -> Nat], NEW r \in [Thread -> Nat], NEW m, WaitHolds(L, T, pos, r, m),
         NEW t \in Thread, NEW b \in Thread, Alone(t), FlagsBut(b), b = t \/ b \in T[t] \/ b = inHand[t],
         NEW L1 \in SUBSET Thread, NEW S \in SUBSET Thread, NEW T1, T1 = [T EXCEPT ![t] = S],
         NEW pos1, NEW r1, NEW m1, WaitLinks', Queued(L1, pos1, m1)', Ordered(waitBack', S, HeadOf(t)', r1),
         OthersKept(t, T, r, r1), Splits(t, L, T, L1, S), Sits(t, L1, S),
         t \in L \cup T[t] \cup Hand(t) \/ ((ToSet(t) => ToSet(t)') /\ (ToRelease(t) => ToRelease(t)')),
         \A u \in Thread : FitAt(u, L1, pos1, m1)'
  PROVE  WaitHolds(L1, T1, pos1, r1, m1)'
  <1>1. Carries(T, r) /\ Disjoint(L, T) /\ Placed(L, T)
    BY DEF WaitHolds
  <1>2. T1[t] = S /\ \A u \in Thread : u # t => T1[u] = T[u]
    OBVIOUS
  <1>3. \A x \in L1 \cup S \cup Hand(t)' : x \in L \cup T[t] \cup Hand(t) \/ (x = t /\ ~Listed(t))
    BY DEF Splits
  <1>4. ASSUME NEW u \in Thread, u # t, NEW x \in T[u]
        PROVE  x \notin L1 \cup S \cup Hand(t)' /\ x \notin L \cup T[t] \cup Hand(t)
    <2>1. x \notin L \cup T[t] \cup Hand(t)
      BY <1>1, <1>4 DEF Disjoint, Hand
    <2>2. ~(x = t /\ ~Listed(t))
      BY <1>1, <1>4, NotPlaced
    <2> QED BY <1>3, <2>1, <2>2
  <1>5. ASSUME NEW u \in Thread, u # t, inHand[u] # Null
        PROVE  /\ inHand[u] \notin L1 \cup S \cup Hand(t)' /\ inHand[u] \notin L \cup T[t] \cup Hand(t)
               /\ inHand[u] \in Thread
    <2>1. inHand[u] \notin L \cup T[t] \cup Hand(t)
      BY <1>1, <1>5 DEF Disjoint, Hand
    <2>2. ~(inHand[u] = t /\ ~Listed(t))
      BY <1>1, <1>5, NotPlaced
    <2>3. inHand[u] \in Thread
      BY <1>5 DEF OfWaiters, BucketType, Block
    <2> QED BY <1>3, <2>1, <2>2, <2>3
  <1>6. Carries(T1, r1)'
    <2>1. ASSUME NEW u \in Thread
          PROVE  Ordered(waitBack', T1[u], HeadOf(u)', r1)
      <3>1. CASE u = t
        BY <1>2, <3>1
      <3>2. CASE u # t
        <4>1. Ordered(waitBack, T[u], HeadOf(u), r)
          BY <1>1 DEF Carries
        <4>2. HeadOf(u)' = HeadOf(u)
          BY <3>2, OthersHeld
        <4>3. \A x \in T[u] : waitBack'[x] = waitBack[x] /\ r1[x] = r[x]
          BY <3>2 DEF OthersKept
        <4>4. Ordered(waitBack', T[u], HeadOf(u), r1)
          BY <4>1, <4>3, OrderedAlike
        <4> QED BY <1>2, <3>2, <4>2, <4>4
      <3> QED BY <3>1, <3>2
    <2> QED BY <2>1 DEF Carries
  <1>7. Disjoint(L1, T1)'
    <2>1. \A u \in Thread : L1 \cap T1[u] = {}
      BY <1>2, <1>4 DEF Splits
    <2>2. \A u, v \in Thread : u # v => T1[u] \cap T1[v] = {}
      BY <1>1, <1>2, <1>4 DEF Disjoint
    <2>3. ASSUME NEW u \in Thread, inHand'[u] # Null
          PROVE  inHand'[u] \notin L1 /\ \A v \in Thread : inHand'[u] \notin T1[v]
      <3>1. CASE u = t
        <4>1. inHand'[t] \in Hand(t)'
          BY <2>3, <3>1 DEF Hand
        <4> QED BY <1>2, <1>4, <3>1, <4>1 DEF Splits
      <3>2. CASE u # t
        <4>1. inHand'[u] = inHand[u]
          BY <3>2, OthersHeld
        <4> QED BY <1>1, <1>2, <1>5, <2>3, <3>2, <4>1 DEF Disjoint
      <3> QED BY <3>1, <3>2
    <2>4. ASSUME NEW u \in Thread, NEW v \in Thread, u # v, inHand'[u] # Null
          PROVE  inHand'[u] # inHand'[v]
      <3>1. CASE u = t
        <4>1. inHand'[v] = inHand[v] /\ inHand'[t] \in Hand(t)'
          BY <2>4, <3>1, OthersHeld DEF Hand
        <4> QED BY <1>5, <2>4, <3>1, <4>1
      <3>2. CASE v = t
        <4>1. inHand'[u] = inHand[u] /\ (inHand'[t] # Null => inHand'[t] \in Hand(t)')
          BY <2>4, <3>2, OthersHeld DEF Hand
        <4> QED BY <1>5, <2>4, <3>2, <4>1
      <3>3. CASE u # t /\ v # t
        <4>1. inHand'[u] = inHand[u] /\ inHand'[v] = inHand[v]
          BY <3>3, OthersHeld
        <4> QED BY <1>1, <2>4, <4>1 DEF Disjoint
      <3> QED BY <3>1, <3>2, <3>3
    <2> QED BY <2>1, <2>2, <2>3, <2>4 DEF Disjoint
  <1>8. ASSUME NEW x \in Thread, x \notin L \cup T[t] \cup Hand(t)
        PROVE  (ToSet(x) => ToSet(x)') /\ (ToRelease(x) => ToRelease(x)')
    <2>1. CASE x = t
      BY <1>8, <2>1
    <2>2. CASE x # t
      <3>1. x # b
        BY <1>8, <2>2, NullIsNoThread DEF Hand
      <3> QED BY <2>2, <3>1, StillPlaced
    <2> QED BY <2>1, <2>2
  <1>9. Placed(L1, T1)'
    <2>1. ASSUME NEW u \in Thread, NEW x \in T1[u]
          PROVE  IF Drains(u)' THEN ToSet(x)' ELSE ToRelease(x)'
      <3>1. CASE u = t
        BY <1>2, <2>1, <3>1 DEF Sits
      <3>2. CASE u # t
        <4>1. x \in T[u] /\ x \in Thread
          BY <1>2, <2>1, <3>2
        <4>2. x \notin L \cup T[t] \cup Hand(t)
          BY <1>4, <3>2, <4>1
        <4>3. IF Drains(u) THEN ToSet(x) ELSE ToRelease(x)
          BY <1>1, <4>1 DEF Placed
        <4> QED BY <1>8, <3>2, <4>1, <4>2, <4>3, OthersHeld
      <3> QED BY <3>1, <3>2
    <2>2. ASSUME NEW u \in Thread, inHand'[u] # Null
          PROVE  IF Drains(u)' THEN ToRelease(inHand[u])' ELSE ToSet(inHand[u])'
      <3>1. CASE u = t
        BY <2>2, <3>1 DEF Sits
      <3>2. CASE u # t
        <4>1. PICK x : x = inHand[u]
          OBVIOUS
        <4>2. inHand'[u] = x /\ (Drains(u)' <=> Drains(u))
          BY <3>2, <4>1, OthersHeld
        <4>3. x \in Thread /\ x \notin L \cup T[t] \cup Hand(t)
          BY <1>5, <2>2, <3>2, <4>1, <4>2
        <4>4. IF Drains(u) THEN ToRelease(x) ELSE ToSet(x)
          BY <1>1, <2>2, <4>1, <4>2 DEF Placed
        <4>5. IF Drains(u)' THEN ToRelease(x)' ELSE ToSet(x)'
          BY <1>8, <4>2, <4>3, <4>4
        <4> QED BY <4>2, <4>5
      <3> QED BY <3>1, <3>2
    <2> QED BY <2>1, <2>2 DEF Placed, Sits
  <1>10. Fit(L1, pos1, m1)'
    BY DEF Fit
  <1> QED BY <1>6, <1>7, <1>9, <1>10 DEF WaitHolds

\* The owner moves, or who becomes it: nobody else relies on the list.
LEMMA FitOwner ==
  ASSUME LocksInv, NEW t \in Thread, Alone(t), Locks(t) \/ ~bucket.locked, NEW L, NEW T, NEW pos, NEW m,
         Placed(L, T), Fit(L, pos, m), NEW L1, NEW pos1, NEW m1, FitAt(t, L1, pos1, m1)',
         \A u \in Thread : u # t => u \in L \/ waitNotify'[u] = waitNotify[u]
  PROVE  \A u \in Thread : FitAt(u, L1, pos1, m1)'
  <1>1. ASSUME NEW u \in Thread, u # t
        PROVE  FitAt(u, L1, pos1, m1)'
    <2>1. ~Locks(u)
      BY <1>1 DEF LocksInv
    <2>2. FitAt(u, L, pos, m)
      BY DEF Fit
    <2>3. u \in L => waitPc[u] \notin {"idle", "add"}
      BY DEF Placed, OnQueue
    <2> QED BY <1>1, <2>1, <2>2, <2>3 DEF FitAt, Alone, Locks
  <1> QED BY <1>1

\* Who is on the list and does not own it can be woken.
LEMMA QueueToSet ==
  ASSUME LocksInv, NEW t \in Thread, Locks(t), NEW x \in Thread, x # t, OnQueue(x)
  PROVE  ToSet(x)
  BY DEF LocksInv, Locks, OnQueue, ToSet

\* The list changes, and the owner may take a block of it in hand.
LEMMA HoldsList ==
  ASSUME OfWaiters, NEW L \in SUBSET Thread, NEW T \in [Thread -> SUBSET Thread],
         NEW pos \in [Thread -> Nat], NEW r \in [Thread -> Nat], NEW m, WaitHolds(L, T, pos, r, m),
         NEW t \in Thread, Alone(t), FlagsBut(t),
         NEW L1 \in SUBSET Thread, NEW pos1, NEW m1, WaitLinks', Queued(L1, pos1, m1)',
         \A x \in L1 : x \in L \/ (x = t /\ ~Listed(t)),
         \A x \in Thread \ L : waitBack'[x] = waitBack[x] \/ (x = t /\ ~Listed(t)),
         HeadOf(t)' = HeadOf(t), (Drains(t)' <=> Drains(t)) \/ (HeadOf(t) = Null /\ inHand[t] = Null),
         \/ inHand'[t] = inHand[t]
         \/ inHand[t] = Null /\ inHand'[t] \in L \ L1 /\ inHand'[t] # t /\ Locks(t) /\ ~Drains(t)',
         t \in L1 => OnQueue(t)',
         t \in L \/ ((ToSet(t) => ToSet(t)') /\ (ToRelease(t) => ToRelease(t)')),
         \A u \in Thread : FitAt(u, L1, pos1, m1)'
  PROVE  WaitHolds(L1, T, pos1, r, m1)'
  <1>1. Carries(T, r) /\ Disjoint(L, T) /\ Placed(L, T) /\ WaitLinks
    BY DEF WaitHolds
  <1>2. \A u \in Thread : \A x \in T[u] : x \in Thread \ L /\ Listed(x) /\ waitBack'[x] = waitBack[x]
    <2>1. \A u \in Thread : \A x \in T[u] : x \in Thread \ L /\ Listed(x)
      BY <1>1, NotPlaced DEF Disjoint
    <2> QED BY <2>1
  <1>3. Ordered(waitBack', T[t], HeadOf(t)', r)
    <2>1. Ordered(waitBack, T[t], HeadOf(t), r) /\ \A x \in T[t] : waitBack'[x] = waitBack[x]
      BY <1>1, <1>2 DEF Carries
    <2> QED BY <2>1, OrderedSame
  <1>4. OthersKept(t, T, r, r)
    BY <1>2 DEF OthersKept
  <1>5. inHand[t] # Null => inHand[t] \in Thread \ L /\ Listed(inHand[t]) /\ inHand[t] \notin T[t]
    <2>1. SUFFICES ASSUME inHand[t] # Null
                   PROVE  inHand[t] \in Thread \ L /\ Listed(inHand[t]) /\ inHand[t] \notin T[t]
      OBVIOUS
    <2>2. inHand[t] \in Thread
      BY <2>1 DEF OfWaiters, BucketType, Block
    <2> QED BY <1>1, <2>1, <2>2, NotPlaced DEF Disjoint
  <1>6. Splits(t, L, T, L1, T[t])
    <2>1. L1 \cap T[t] = {}
      BY <1>2
    <2>2. Hand(t)' \cap (L1 \cup T[t]) = {} /\ \A x \in Hand(t)' : x \in L \cup Hand(t)
      <3>1. CASE inHand'[t] = inHand[t]
        BY <1>5, <3>1 DEF Hand
      <3>2. CASE inHand[t] = Null /\ inHand'[t] \in L \ L1
        BY <1>2, <3>2 DEF Hand
      <3> QED BY <3>1, <3>2
    <2> QED BY <2>1, <2>2 DEF Splits
  <1>7. ASSUME NEW x \in Thread \ L
        PROVE  (ToSet(x) => ToSet(x)') /\ (ToRelease(x) => ToRelease(x)')
    BY <1>7, StillPlaced
  <1>8. Sits(t, L1, T[t])
    <2>1. \A x \in L1 : OnQueue(x)'
      <3>1. ASSUME NEW x \in L1, x # t
            PROVE  OnQueue(x)'
        BY <1>1, <3>1, StillPlaced DEF Placed
      <3> QED BY <3>1
    <2>2. ASSUME NEW x \in T[t]
          PROVE  IF Drains(t)' THEN ToSet(x)' ELSE ToRelease(x)'
      <3>1. Drains(t)' <=> Drains(t)
        BY <1>1, <2>2, CarriedIs
      <3>2. IF Drains(t) THEN ToSet(x) ELSE ToRelease(x)
        BY <1>1 DEF Placed
      <3> QED BY <1>2, <1>7, <3>1, <3>2
    <2>3. ASSUME inHand'[t] # Null
          PROVE  IF Drains(t)' THEN ToRelease(inHand[t])' ELSE ToSet(inHand[t])'
      <3>1. PICK x : x = inHand'[t]
        OBVIOUS
      <3>2. CASE inHand'[t] = inHand[t]
        <4>1. x \in Thread \ L /\ inHand[t] # Null /\ x = inHand[t]
          BY <1>5, <2>3, <3>1, <3>2
        <4>2. IF Drains(t) THEN ToRelease(x) ELSE ToSet(x)
          BY <1>1, <4>1 DEF Placed
        <4>3. Drains(t)' <=> Drains(t)
          BY <4>1
        <4>4. IF Drains(t)' THEN ToRelease(x)' ELSE ToSet(x)'
          BY <1>7, <4>1, <4>2, <4>3
        <4> QED BY <3>1, <4>4
      <3>3. CASE inHand[t] = Null /\ inHand'[t] \in L \ L1 /\ inHand'[t] # t /\ Locks(t) /\ ~Drains(t)'
        <4>1. OnQueue(x) /\ x \in Thread /\ x # t
          BY <1>1, <3>1, <3>3 DEF Placed
        <4>2. ToSet(x)
          BY <3>3, <4>1, QueueToSet DEF OfWaiters
        <4>3. ToSet(x)'
          BY <4>1, <4>2, StillPlaced
        <4> QED BY <3>1, <3>3, <4>3
      <3> QED BY <3>2, <3>3
    <2> QED BY <2>1, <2>2, <2>3 DEF Sits
  <1>9. PICK T1 : T1 = [T EXCEPT ![t] = T[t]]
    OBVIOUS
  <1>10. T1 = T /\ T[t] \in SUBSET Thread
    BY <1>9
  <1>11. WaitHolds(L1, T1, pos1, r, m1)'
    BY <1>3, <1>4, <1>6, <1>8, <1>9, <1>10, HoldsMoves
  <1> QED BY <1>10, <1>11

-----------------------------------------------------------------------------
(* The steps one by one.                                                   *)

\* There is always a number for one more block.
LEMMA NextNumber ==
  ASSUME NEW pos \in [Thread -> Nat], NEW link, NEW S, NEW b, Ordered(link, S, b, pos)
  PROVE  \E n \in Nat : \A x \in S : pos[x] < n
  <1>1. CASE S = {}
    BY <1>1
  <1>2. CASE S # {}
    <2>1. b \in S /\ \A x \in S : pos[x] \in Nat /\ pos[x] <= pos[b]
      BY <1>2 DEF Ordered
    <2>2. PICK n : n = pos[b] + 1
      OBVIOUS
    <2>3. n \in Nat /\ \A x \in S : pos[x] < n
      BY <2>1, <2>2
    <2> QED BY <2>3
  <1> QED BY <1>1, <1>2

LEMMA HeldAdd ==
  ASSUME OfWaiters, NEW L \in SUBSET Thread, NEW T \in [Thread -> SUBSET Thread],
         NEW pos \in [Thread -> Nat], NEW r \in [Thread -> Nat], NEW m \in Block, WaitHolds(L, T, pos, r, m),
         NEW t \in Thread, Waits!Add(t)
  PROVE  WaitHeld'
  <1>1. waitPc[t] = "add" /\ WaiterAt(t)
    BY DEF Waits!Add, OfWaiters, WaiterInv
  <1>2. PICK p \in {"compare", "look"} :
          Alone(t) /\ FlagsBut(t) /\ Gets(t, p, waitCall[t], flag[t], inHand[t], LastWake[t], pItem[t])
    BY AddJoinsDoes, AddLocksDoes
  <1>3. WaitLinks /\ Queued(L, pos, m) /\ Carries(T, r) /\ Disjoint(L, T) /\ Placed(L, T) /\ Fit(L, pos, m)
    BY DEF WaitHolds
  <1>4. PICK n \in Nat : \A x \in L : pos[x] < n
    BY <1>3, NextNumber DEF Queued, Queue
  <1>5. /\ waitBack' = [waitBack EXCEPT ![t] = bucket.block] /\ waitNotify' = waitNotify
        /\ waitNext' = [waitNext EXCEPT ![t] = IF bucket.block = Null THEN t ELSE Null]
        /\ bucket'.block = t /\ UNCHANGED <<waitCurrent, pBlock>>
    BY DEF Waits!Add, Waits!Word, Waits!owner
  <1>6. PICK L1, pos1, m1 : L1 = L \cup {t} /\ pos1 = [pos EXCEPT ![t] = n] /\ m1 = IF bucket.block = Null THEN t ELSE m
    OBVIOUS
  <1>7. L1 \in SUBSET Thread /\ pos1 \in [Thread -> Nat] /\ m1 \in Block
    BY <1>6 DEF Block
  <1>8. ~Listed(t) /\ HeadOf(t) = Null /\ inHand[t] = Null /\ LastWake[t] = Null /\ ~Drains(t)
    BY <1>1 DEF Listed, OnQueue, ToSet, ToRelease, Drains, HeadOf, WaiterAt, Fits
  <1>9. t \notin L /\ waitNotify[t] = Null
    BY <1>1, <1>3, <1>8, NotPlaced DEF Fit, FitAt
  <1>10. bucket.block \in Block
    BY BucketIs DEF OfWaiters, BucketType
  <1>11. Queued(L1, pos1, m1)'
    <2>1. Queue(waitBack, waitNext, waitNotify, L, bucket.block, pos, m)
      BY <1>3 DEF Queued
    <2>2. waitBack \in [Thread -> Block] /\ waitNext \in [Thread -> Block] /\ waitNotify \in [Thread -> Block]
      BY <1>3 DEF WaitLinks
    <2>3. Queue(waitBack', waitNext', waitNotify, L \cup {t}, t, [pos EXCEPT ![t] = n], m1)
      BY <1>4, <1>5, <1>6, <1>9, <2>1, <2>2, QueuePush
    <2> QED BY <1>5, <1>6, <2>3 DEF Queued
  <1>12. WaitLinks'
    BY <1>3, <1>5, <1>10 DEF WaitLinks, Block
  <1>13. /\ \A x \in L1 : x \in L \/ (x = t /\ ~Listed(t))
         /\ \A x \in Thread \ L : waitBack'[x] = waitBack[x] \/ (x = t /\ ~Listed(t))
    BY <1>3, <1>5, <1>6, <1>8 DEF WaitLinks
  <1>14. HeadOf(t)' = HeadOf(t) /\ inHand'[t] = inHand[t]
    BY <1>2, <1>8 DEF Gets, HeadOf, Drains
  <1>15. OnQueue(t)' /\ (ToSet(t) => ToSet(t)') /\ (ToRelease(t) => ToRelease(t)')
    <2>1. flag[t] = Waits!Spinning
      BY <1>1 DEF WaiterAt, Fits
    <2> QED BY <1>2, <1>8, <2>1 DEF Gets, OnQueue, Listed, Waits!Spinning, Waits!Woken
  <1>16. \A u \in Thread : FitAt(u, L1, pos1, m1)'
    <2>1. FitAt(t, L1, pos1, m1)'
      BY <1>2, <1>6 DEF Gets, FitAt
    <2>2. ASSUME NEW u \in Thread, u # t
          PROVE  FitAt(u, L1, pos1, m1)'
      <3>1. FitAt(u, L, pos, m)
        BY <1>3 DEF Fit
      <3>2. L # {} => m1 = m /\ m \in L
        BY <1>3, <1>6, QueueIs
      <3>3. \A x \in L : x \in L1 /\ pos1[x] = pos[x]
        BY <1>6, <1>9
      <3> QED BY <1>2, <1>5, <2>2, <3>1, <3>2, <3>3 DEF FitAt, Alone, Locks
    <2> QED BY <2>1, <2>2
  <1>17. WaitHolds(L1, T, pos1, r, m1)'
    BY <1>2, <1>7, <1>8, <1>11, <1>12, <1>13, <1>14, <1>15, <1>16, HoldsList
  <1> QED BY <1>7, <1>17 DEF WaitHeld

\* The owner, or who becomes it, marks the list from its newest block or from one that was.
MarksFrom(h) ==
  /\ waitBack' = waitBack
  /\ waitNotify' = Waits!Linked(h) /\ waitNext' = [waitNext EXCEPT ![h] = Waits!Oldest(h)]

LEMMA MarksIs ==
  ASSUME NEW L, NEW pos \in [Thread -> Nat], NEW m, WaitLinks, Queued(L, pos, m),
         NEW h \in L, pos[m] <= pos[h], MarksFrom(h)
  PROVE  /\ WaitLinks' /\ waitBack' = waitBack
         /\ bucket'.block = bucket.block => Queued(L, pos, h)'
         /\ \A x \in Thread \ L : waitNotify'[x] = waitNotify[x]
         /\ Waits!Oldest(h) \in L /\ pos[Waits!Oldest(h)] <= pos[h]
  <1>1. Queue(waitBack, waitNext, waitNotify, L, bucket.block, pos, m)
    BY DEF Queued
  <1>2. waitBack \in [Thread -> Block] /\ waitNext \in [Thread -> Block] /\ waitNotify \in [Thread -> Block]
    BY DEF WaitLinks
  <1>3. Marked(waitBack, waitNext, waitNotify, waitNext', waitNotify', h)
    BY WaitWalks DEF MarksFrom, Marked
  <1>4. /\ Queue(waitBack, waitNext', waitNotify', L, bucket.block, pos, h)
        /\ waitNext' \in [Thread -> Block] /\ waitNotify' \in [Thread -> Block]
        /\ \A x \in Thread \ L : waitNext'[x] = waitNext[x] /\ waitNotify'[x] = waitNotify[x]
        /\ OldestOf(waitBack, waitNext, h) \in L /\ pos[OldestOf(waitBack, waitNext, h)] <= pos[h]
    <2>1. PICK known1, forth1 : known1 = waitNext' /\ forth1 = waitNotify'
      OBVIOUS
    <2>2. Marked(waitBack, waitNext, waitNotify, known1, forth1, h)
      BY <1>3, <2>1
    <2>3. QueueFrom(waitBack, waitNext, waitNotify, known1, forth1, L, bucket.block, pos, h)
      BY <1>1, <1>2, <2>2, QueueMark
    <2> QED BY <2>1, <2>3 DEF QueueFrom
  <1>5. waitBack' = waitBack
    BY DEF MarksFrom
  <1>6. WaitLinks' /\ (bucket'.block = bucket.block => Queued(L, pos, h)')
    BY <1>2, <1>4, <1>5 DEF WaitLinks, Queued
  <1> QED BY <1>4, <1>5, <1>6, WaitWalks

\* After that everything else is as it was.
LEMMA HoldsMarked ==
  ASSUME OfWaiters, NEW L \in SUBSET Thread, NEW T \in [Thread -> SUBSET Thread],
         NEW pos \in [Thread -> Nat], NEW r \in [Thread -> Nat], NEW m \in Block, WaitHolds(L, T, pos, r, m),
         NEW t \in Thread, Alone(t), FlagsBut(t), Locks(t) \/ ~bucket.locked,
         NEW h \in L, pos[m] <= pos[h], MarksFrom(h), bucket'.block = bucket.block,
         HeadOf(t)' = HeadOf(t), Drains(t)' <=> Drains(t), inHand'[t] = inHand[t],
         t \in L => OnQueue(t)', t \in L \/ ((ToSet(t) => ToSet(t)') /\ (ToRelease(t) => ToRelease(t)')),
         FitAt(t, L, pos, h)'
  PROVE  WaitHolds(L, T, pos, r, h)'
  <1>1. WaitLinks /\ Queued(L, pos, m) /\ Placed(L, T) /\ Fit(L, pos, m)
    BY DEF WaitHolds
  <1>2. /\ WaitLinks' /\ Queued(L, pos, h)' /\ waitBack' = waitBack
        /\ \A x \in Thread \ L : waitNotify'[x] = waitNotify[x]
    BY <1>1, MarksIs
  <1>3. \A u \in Thread : FitAt(u, L, pos, h)'
    BY <1>1, <1>2, FitOwner DEF OfWaiters
  <1> QED BY <1>2, <1>3, HoldsList

LEMMA HeldOptimizeStays ==
  ASSUME OfWaiters, NEW L \in SUBSET Thread, NEW T \in [Thread -> SUBSET Thread],
         NEW pos \in [Thread -> Nat], NEW r \in [Thread -> Nat], NEW m \in Block, WaitHolds(L, T, pos, r, m),
         NEW t \in Thread, Waits!Optimize(t), bucket # waitCurrent \/ ~bucket.wakeAll
  PROVE  WaitHeld'
  <1>1. waitPc[t] = "optimize" /\ WaiterAt(t) /\ Locks(t)
    BY DEF Waits!Optimize, OfWaiters, WaiterInv, Locks
  <1>2. PICK p \in {"compare", "optimize"} :
          /\ Alone(t) /\ FlagsBut(t) /\ Gets(t, p, waitCall[t], flag[t], inHand[t], LastWake[t], pItem[t])
          /\ p = "optimize" => bucket # waitCurrent
    BY OptimizeAgainDoes, OptimizeEndsDoes
  <1>3. WaitLinks /\ Queued(L, pos, m) /\ Fit(L, pos, m)
    BY DEF WaitHolds
  <1>4. PICK h : h = waitCurrent.block
    OBVIOUS
  <1>5. t \in L /\ h \in L /\ pos[m] <= pos[h]
    BY <1>1, <1>3, <1>4 DEF Fit, FitAt
  <1>6. MarksFrom(h)
    BY <1>4 DEF Waits!Optimize, Waits!Mark, MarksFrom
  <1>7. bucket'.block = bucket.block /\ (bucket # waitCurrent => waitCurrent' = bucket)
    <2>1. CASE bucket # waitCurrent
      BY <2>1 DEF Waits!Optimize
    <2>2. CASE bucket = waitCurrent
      <3>1. bucket' = [bucket EXCEPT !.locked = FALSE]
        BY <2>2 DEF Waits!Optimize, Waits!Unlock
      <3> QED BY <2>2, <3>1, BucketIs DEF OfWaiters, BucketType
    <2> QED BY <2>1, <2>2
  <1>8. HeadOf(t)' = HeadOf(t) /\ (Drains(t)' <=> Drains(t)) /\ inHand'[t] = inHand[t]
    BY <1>1, <1>2 DEF HeadOf, Drains, Gets
  <1>9. OnQueue(t)'
    <2>1. OnQueue(t)
      BY <1>5 DEF WaitHolds, Placed
    <2> QED BY <1>2, <2>1 DEF OnQueue, Gets
  <1>10. FitAt(t, L, pos, h)'
    <2>1. bucket.block \in L /\ pos[h] <= pos[bucket.block]
      BY <1>3, <1>5, QueueIs
    <2> QED BY <1>2, <1>5, <1>7, <2>1 DEF FitAt, Gets
  <1>11. WaitHolds(L, T, pos, r, h)'
    BY <1>1, <1>2, <1>5, <1>6, <1>7, <1>8, <1>9, <1>10, HoldsMarked
  <1>12. h \in Block
    BY <1>5 DEF Block
  <1> QED BY <1>11, <1>12 DEF WaitHeld

\* The walk of a waker begins at the oldest block.
LEMMA HoldsBegins ==
  ASSUME OfWaiters, NEW L \in SUBSET Thread, NEW T \in [Thread -> SUBSET Thread],
         NEW pos \in [Thread -> Nat], NEW r \in [Thread -> Nat], NEW m \in Block, WaitHolds(L, T, pos, r, m),
         NEW t \in Thread, waitPc[t] \in {"wake", "scan"}, OfWaiters', Alone(t), FlagsBut(t), Locks(t) \/ ~bucket.locked,
         NEW h, h = bucket.block, h # Null, MarksFrom(h), bucket'.block = bucket.block, waitCurrent'.block = h, pBlock' = h,
         Gets(t, "scan", waitCall[t], flag[t], inHand[t], LastWake[t], Waits!Oldest(h)), Locks(t)'
  PROVE  WaitHolds(L, T, pos, r, h)' /\ h \in Block
  <1>1. WaitLinks /\ Queued(L, pos, m) /\ Placed(L, T)
    BY DEF WaitHolds
  <1>2. h \in L /\ h \in Block /\ pos[m] <= pos[h]
    BY <1>1, QueueIs DEF Block
  <1>3. Waits!Oldest(h) \in L /\ pos[Waits!Oldest(h)] <= pos[h]
    BY <1>1, <1>2, MarksIs
  <1>4. HeadOf(t)' = HeadOf(t) /\ (Drains(t)' <=> Drains(t)) /\ inHand'[t] = inHand[t]
    BY DEF HeadOf, Drains, Gets
  <1>5. ~Listed(t) /\ t \notin L
    <2>1. ~Listed(t)
      BY DEF Listed, OnQueue, ToSet, ToRelease, Drains
    <2> QED BY <1>1, <2>1, NotPlaced
  <1>6. FitAt(t, L, pos, h)'
    <2>1. PICK o : o = Waits!Oldest(h)
      OBVIOUS
    <2>2. waitPc'[t] = "scan" /\ pItem'[t] = o /\ o \in L /\ pos[o] <= pos[h]
      BY <1>3, <2>1 DEF Gets
    <2> QED BY <2>2 DEF FitAt
  <1>7. WaitHolds(L, T, pos, r, h)'
    BY <1>2, <1>4, <1>5, <1>6, HoldsMarked DEF Listed
  <1> QED BY <1>2, <1>7

LEMMA HeldWakeLocks ==
  ASSUME OfWaiters, NEW L \in SUBSET Thread, NEW T \in [Thread -> SUBSET Thread],
         NEW pos \in [Thread -> Nat], NEW r \in [Thread -> Nat], NEW m \in Block, WaitHolds(L, T, pos, r, m),
         NEW t \in Thread, Waits!Wake(t), ~(bucket.block = Null \/ bucket.locked)
  PROVE  OfWaiters' /\ WaitHeld'
  <1>1. waitPc[t] = "wake" /\ WaiterAt(t)
    BY DEF Waits!Wake, OfWaiters, WaiterInv
  <1>2. PICK h : h = bucket.block
    OBVIOUS
  <1>3. WaitLinks /\ Queued(L, pos, m)
    BY DEF WaitHolds
  <1>4. PICK w : w = [bucket EXCEPT !.locked = TRUE]
    OBVIOUS
  <1>5. w.block = h
    BY <1>2, <1>4, BucketLocked DEF OfWaiters, BucketType
  <1>6. bucket' = w /\ Waits!BeginScan(t, w)
    BY <1>4 DEF Waits!Wake
  <1>7. MarksFrom(h) /\ bucket'.block = bucket.block /\ waitCurrent'.block = h /\ pBlock' = h
    BY <1>2, <1>5, <1>6 DEF Waits!BeginScan, Waits!Mark, MarksFrom
  <1>8. h \in L /\ pos[m] <= pos[h] /\ h # Null
    BY <1>2, <1>3, QueueIs
  <1>9. Waits!Oldest(h) \in Block
    BY <1>3, <1>7, <1>8, MarksIs DEF Block
  <1>10. OfWaiters' /\ Alone(t) /\ FlagsBut(t)
         /\ Gets(t, "scan", waitCall[t], flag[t], inHand[t], LastWake[t], Waits!Oldest(h))
    BY <1>2, <1>9, WakeLocksDoes
  <1>11. Locks(t)'
    BY <1>1, <1>10 DEF Locks, Gets, WaiterAt, Fits
  <1>12. WaitHolds(L, T, pos, r, h)' /\ h \in Block
    BY <1>1, <1>2, <1>7, <1>8, <1>10, <1>11, HoldsBegins
  <1> QED BY <1>10, <1>12 DEF WaitHeld

\* RtlpWaitOnAddressRemoveWaitBlock leaves U on the list, linked from the newest block h.
CutTo(U, h, pos) ==
  /\ WaitLinks' /\ Queue(waitBack', waitNext', waitNotify', U, h, pos, h)
  /\ \A x \in Thread \ U : waitBack'[x] = waitBack[x] /\ waitNotify'[x] = waitNotify[x]

LEMMA CutIs ==
  ASSUME WaitLinks, NEW S, NEW pos \in [Thread -> Nat], NEW h, Ordered(waitBack, S, h, pos), S # {},
         NEW t \in Thread, t # h, NEW n, n = Null, Waits!Unlink(h, t, n)
  PROVE  CutTo(S \ {t}, h, pos)
  <1>1. waitBack \in [Thread -> Block] /\ waitNext \in [Thread -> Block] /\ waitNotify \in [Thread -> Block]
    BY DEF WaitLinks
  <1>2. Waits!Behind(h) = S
    BY <1>1, FollowOrdered, WaitFollow
  <1>3. PICK U, old, link1, known1, forth1 :
          /\ U = S \ {t} /\ link1 = waitBack' /\ known1 = waitNext' /\ forth1 = waitNotify'
          /\ old = (CHOOSE x \in U : link1[x] = Null)
    OBVIOUS
  <1>4. S \subseteq Thread /\ h \in S /\ h \in U /\ U \subseteq Thread
    BY <1>3 DEF Ordered
  <1>5. link1 = [x \in Thread |-> IF x \in U /\ waitBack[x] = t THEN waitBack[t] ELSE waitBack[x]]
    BY <1>2, <1>3 DEF Waits!Unlink
  <1>6. old = CHOOSE x \in U : [b \in Thread |-> IF b \in U /\ waitBack[b] = t THEN waitBack[t] ELSE waitBack[b]][x] = Null
    BY <1>3, <1>5
  <1>7. known1 = [b \in Thread |-> IF b = h \/ (b = old /\ t \in S /\ waitBack[t] = Null) THEN old ELSE waitNext[b]]
    BY <1>2, <1>3, <1>6 DEF Waits!Unlink
  <1>8. forth1 = [b \in Thread |-> IF b = h THEN Null ELSE IF b \in U
            THEN CHOOSE x \in U : [c \in Thread |-> IF c \in U /\ waitBack[c] = t THEN waitBack[t] ELSE waitBack[c]][x] = b
            ELSE waitNotify[b]]
    BY <1>2, <1>3 DEF Waits!Unlink
  <1>9. forth1 = [x \in Thread |-> IF x = h THEN Null ELSE IF x \in U THEN CHOOSE y \in U : link1[y] = x ELSE waitNotify[x]]
    BY <1>5, <1>8
  <1>10. old \in U
    <2>1. Ordered(link1, S \ {t}, h, pos)
      BY <1>1, <1>3, <1>5, OrderedWithout
    <2>2. U # {} /\ Ordered(link1, U, h, pos)
      BY <1>3, <1>4, <2>1
    <2>3. old = CHOOSE x \in U : link1[x] = Null
      BY <1>3
    <2> QED BY <2>2, <2>3, OrderedEnd
  <1>11. known1 \in [Thread -> Block] /\ known1[h] = old /\ \A x \in Thread \ U : known1[x] = waitNext[x]
    BY <1>1, <1>4, <1>7, <1>10 DEF Block
  <1>12. Cut(waitBack, waitNext, waitNotify, link1, known1, forth1, S, h, t, U, old)
    BY <1>3, <1>5, <1>9, <1>11 DEF Cut
  <1>13. QueueWithout(waitBack, waitNext, waitNotify, link1, known1, forth1, U, h, pos, h)
    BY <1>1, <1>12, QueueCut
  <1> QED BY <1>3, <1>13 DEF QueueWithout, CutTo, WaitLinks

\* The newest leads to nobody.
LEMMA NewestEnds ==
  ASSUME NEW L, NEW pos \in [Thread -> Nat], NEW m, WaitLinks, Queued(L, pos, m), bucket.block # Null
  PROVE  waitNotify[bucket.block] = Null
  <1>1. L # {} /\ bucket.block \in L /\ pos[m] <= pos[bucket.block]
    BY QueueIs
  <1>2. Above(waitNotify, L, pos, m, m)
    BY <1>1 DEF Queued, Queue
  <1> QED BY <1>1, <1>2 DEF Above

\* t takes its block off, and waits no more, or does not find it.
LEMMA HoldsCut ==
  ASSUME OfWaiters, NEW L \in SUBSET Thread, NEW T \in [Thread -> SUBSET Thread],
         NEW pos \in [Thread -> Nat], NEW r \in [Thread -> Nat], NEW m \in Block, WaitHolds(L, T, pos, r, m),
         NEW t \in Thread, Alone(t), FlagsBut(t), Locks(t) \/ ~bucket.locked,
         NEW S, S \ {t} \subseteq L, NEW h \in S, CutTo(S \ {t}, h, pos), bucket'.block = h,
         NEW p, p = IF t \in L THEN "unlock" ELSE "notFound",
         Gets(t, p, waitCall[t], flag[t], inHand[t], LastWake[t], pItem[t]), waitPc[t] \in {"remove", "removeFirst"}
  PROVE  WaitHolds(S \ {t}, T, pos, r, h)'
  <1>1. WaitLinks /\ Queued(L, pos, m) /\ Placed(L, T) /\ Fit(L, pos, m)
    BY DEF WaitHolds
  <1>2. PICK U : U = S \ {t}
    OBVIOUS
  <1>3. U \in SUBSET Thread /\ U \subseteq L
    BY <1>2
  <1>4. WaitLinks' /\ Queued(U, pos, h)' /\ \A x \in Thread \ U : waitBack'[x] = waitBack[x] /\ waitNotify'[x] = waitNotify[x]
    BY <1>2 DEF CutTo, Queued
  <1>5. HeadOf(t)' = HeadOf(t) /\ (Drains(t)' <=> Drains(t)) /\ inHand'[t] = inHand[t]
    BY DEF HeadOf, Drains, Gets
  <1>6. FitAt(t, U, pos, h)'
    BY DEF FitAt, Gets
  <1>7. \A u \in Thread : FitAt(u, U, pos, h)'
    BY <1>1, <1>3, <1>4, <1>6, FitOwner DEF OfWaiters
  <1>8. t \in L \/ ((ToSet(t) => ToSet(t)') /\ (ToRelease(t) => ToRelease(t)'))
    <2>1. SUFFICES ASSUME t \notin L
                   PROVE  (ToSet(t) => ToSet(t)') /\ (ToRelease(t) => ToRelease(t)')
      OBVIOUS
    <2> QED BY <2>1 DEF ToSet, ToRelease, Drains, Gets
  <1>9. WaitHolds(U, T, pos, r, h)'
    BY <1>2, <1>3, <1>4, <1>5, <1>7, <1>8, HoldsList
  <1> QED BY <1>2, <1>9

LEMMA HeldRemoveCuts ==
  ASSUME OfWaiters, NEW L \in SUBSET Thread, NEW T \in [Thread -> SUBSET Thread],
         NEW pos \in [Thread -> Nat], NEW r \in [Thread -> Nat], NEW m \in Block, WaitHolds(L, T, pos, r, m),
         NEW t \in Thread, Waits!RemoveWaitBlock(t), ~(bucket.block = Null \/ bucket.locked), bucket.block # t
  PROVE  WaitHeld'
  <1>1. WaitLinks /\ Queued(L, pos, m) /\ waitPc[t] = "remove"
    BY DEF WaitHolds, Waits!RemoveWaitBlock
  <1>2. PICK h : h = bucket.block
    OBVIOUS
  <1>3. L # {} /\ h \in L /\ h # t /\ Waits!List = L /\ h \in Block
    BY <1>1, <1>2, QueueIs DEF Block
  <1>4. PICK n : n = waitNotify[h]
    OBVIOUS
  <1>5. n = Null
    BY <1>1, <1>2, <1>4, NewestEnds
  <1>6. Waits!Unlink(h, t, n) /\ bucket' = [bucket EXCEPT !.locked = TRUE]
    BY <1>2, <1>4 DEF Waits!RemoveWaitBlock
  <1>7. Ordered(waitBack, L, h, pos)
    BY <1>1, <1>2 DEF Queued, Queue
  <1>8. CutTo(L \ {t}, h, pos)
    BY <1>1, <1>3, <1>5, <1>6, <1>7, CutIs
  <1>9. bucket'.block = h
    BY <1>2, <1>6, BucketIs DEF OfWaiters, BucketType
  <1>10. PICK p : p = IF t \in L THEN "unlock" ELSE "notFound"
    OBVIOUS
  <1>11. Alone(t) /\ FlagsBut(t) /\ Gets(t, p, waitCall[t], flag[t], inHand[t], LastWake[t], pItem[t])
    BY <1>3, <1>10, RemoveCutsDoes
  <1>12. WaitHolds(L \ {t}, T, pos, r, h)'
    BY <1>1, <1>3, <1>8, <1>9, <1>10, <1>11, HoldsCut
  <1> QED BY <1>3, <1>12 DEF WaitHeld

LEMMA HeldRemoveNewestCuts ==
  ASSUME OfWaiters, NEW L \in SUBSET Thread, NEW T \in [Thread -> SUBSET Thread],
         NEW pos \in [Thread -> Nat], NEW r \in [Thread -> Nat], NEW m \in Block, WaitHolds(L, T, pos, r, m),
         NEW t \in Thread, Waits!RemoveNewest(t), bucket # waitCurrent, bucket.block # t
  PROVE  WaitHeld'
  <1>1. WaitLinks /\ Queued(L, pos, m) /\ waitPc[t] = "removeFirst" /\ Locks(t) /\ t \in L
    BY DEF WaitHolds, Waits!RemoveNewest, Locks, Fit, FitAt
  <1>2. PICK h : h = bucket.block
    OBVIOUS
  <1>3. L # {} /\ h \in L /\ h # t /\ h \in Block /\ h # Null
    BY <1>1, <1>2, QueueIs DEF Block
  <1>4. PICK n : n = waitNotify[h]
    OBVIOUS
  <1>5. n = Null
    BY <1>1, <1>2, <1>3, <1>4, NewestEnds
  <1>6. Waits!Unlink(h, t, n) /\ bucket' = bucket
    BY <1>2, <1>3, <1>4 DEF Waits!RemoveNewest
  <1>7. Ordered(waitBack, L, h, pos)
    BY <1>1, <1>2 DEF Queued, Queue
  <1>8. CutTo(L \ {t}, h, pos)
    BY <1>1, <1>3, <1>5, <1>6, <1>7, CutIs
  <1>9. bucket'.block = h
    BY <1>2, <1>6
  <1>10. PICK p : p = IF t \in L THEN "unlock" ELSE "notFound"
    OBVIOUS
  <1>11. Alone(t) /\ FlagsBut(t) /\ Gets(t, p, waitCall[t], flag[t], inHand[t], LastWake[t], pItem[t])
    BY <1>1, <1>10, RemoveNewestCutsDoes
  <1>12. WaitHolds(L \ {t}, T, pos, r, h)'
    BY <1>1, <1>3, <1>8, <1>9, <1>10, <1>11, HoldsCut
  <1> QED BY <1>3, <1>12 DEF WaitHeld

LEMMA HeldRemoveNewestLeaves ==
  ASSUME OfWaiters, NEW L \in SUBSET Thread, NEW T \in [Thread -> SUBSET Thread],
         NEW pos \in [Thread -> Nat], NEW r \in [Thread -> Nat], NEW m \in Block, WaitHolds(L, T, pos, r, m),
         NEW t \in Thread, Waits!RemoveNewest(t), bucket = waitCurrent, waitBack[t] # Null
  PROVE  WaitHeld'
  <1>1. WaitLinks /\ Queued(L, pos, m) /\ waitPc[t] = "removeFirst" /\ Locks(t) /\ t \in L
    BY DEF WaitHolds, Waits!RemoveNewest, Locks, Fit, FitAt
  <1>2. PICK h : h = waitBack[t]
    OBVIOUS
  <1>3. bucket.block = t /\ t # Null
    BY <1>1, NullIsNoThread DEF OfWaiters, LocksInv
  <1>4. h \in Thread /\ h \in Block
    BY <1>1, <1>2 DEF WaitLinks, Block
  <1>5. Ordered(waitBack, L, t, pos)
    BY <1>1, <1>3 DEF Queued, Queue
  <1>6. PICK S : S = L \ {t}
    OBVIOUS
  <1>7. Ordered(waitBack, S, h, pos)
    <2>1. waitBack \in [Thread -> Block]
      BY <1>1 DEF WaitLinks
    <2> QED BY <1>2, <1>3, <1>5, <1>6, <2>1, OrderedPop
  <1>8. h \in S /\ S # {} /\ h # t /\ S \ {t} = S /\ S \in SUBSET Thread
    BY <1>4, <1>6, <1>7, NullIsNoThread DEF Ordered
  <1>9. Waits!Unlink(h, t, Null) /\ bucket' = [bucket EXCEPT !.block = h]
    BY <1>2, <1>4, NullIsNoThread DEF Waits!RemoveNewest
  <1>10. CutTo(S \ {t}, h, pos)
    BY <1>1, <1>7, <1>8, <1>9, CutIs
  <1>11. bucket'.block = h
    BY <1>4, <1>9, BucketIs DEF OfWaiters, BucketType
  <1>12. PICK p : p = IF t \in L THEN "unlock" ELSE "notFound"
    OBVIOUS
  <1>13. Alone(t) /\ FlagsBut(t) /\ Gets(t, p, waitCall[t], flag[t], inHand[t], LastWake[t], pItem[t])
    BY <1>1, <1>2, <1>4, <1>12, RemoveNewestLeavesDoes
  <1>14. S \ {t} \subseteq L
    BY <1>6
  <1>15. WaitHolds(S \ {t}, T, pos, r, h)'
    BY <1>1, <1>8, <1>10, <1>11, <1>12, <1>13, <1>14, HoldsCut
  <1> QED BY <1>4, <1>8, <1>15 DEF WaitHeld

LEMMA HeldRemoveLast ==
  ASSUME OfWaiters, NEW L \in SUBSET Thread, NEW T \in [Thread -> SUBSET Thread],
         NEW pos \in [Thread -> Nat], NEW r \in [Thread -> Nat], NEW m \in Block, WaitHolds(L, T, pos, r, m),
         NEW t \in Thread, Waits!RemoveNewest(t), bucket = waitCurrent, waitBack[t] = Null
  PROVE  WaitHeld'
  <1>1. WaitLinks /\ Queued(L, pos, m) /\ Placed(L, T) /\ Fit(L, pos, m)
        /\ waitPc[t] = "removeFirst" /\ Locks(t) /\ t \in L
    BY DEF WaitHolds, Waits!RemoveNewest, Locks, Fit, FitAt
  <1>2. bucket.block = t /\ t # Null
    BY <1>1, NullIsNoThread DEF OfWaiters, LocksInv
  <1>3. L = {t}
    <2>1. Ordered(waitBack, L, t, pos) /\ waitBack \in [Thread -> Block]
      BY <1>1, <1>2 DEF Queued, Queue, WaitLinks
    <2>2. Ordered(waitBack, L \ {t}, Null, pos)
      <3>1. Ordered(waitBack, L \ {t}, waitBack[t], pos)
        BY <1>2, <2>1, OrderedPop
      <3> QED BY <3>1
    <2>3. L \ {t} = {}
      BY <2>2 DEF Ordered
    <2> QED BY <1>1, <2>3
  <1>4. bucket' = Waits!Empty /\ Waits!Reset(t)
    BY DEF Waits!RemoveNewest, Waits!Return
  <1>5. /\ WaitLinks' /\ waitNotify'[t] = Null
        /\ \A x \in Thread : x # t => waitBack'[x] = waitBack[x] /\ waitNotify'[x] = waitNotify[x]
    BY <1>1, <1>4 DEF WaitLinks, Waits!Reset, Block
  <1>6. Queued({}, pos, m)'
    BY <1>4, BucketNew, QueueNone DEF Queued
  <1>7. Alone(t) /\ FlagsBut(t)
        /\ Gets(t, "idle", Waits!NoCall, Waits!Spinning, inHand[t], LastWake[t], pItem[t])
    BY RemoveLastDoes
  <1>8. HeadOf(t)' = HeadOf(t) /\ (Drains(t)' <=> Drains(t)) /\ inHand'[t] = inHand[t]
    BY <1>1, <1>7 DEF HeadOf, Drains, Gets
  <1>9. FitAt(t, {}, pos, m)'
    BY <1>5, <1>7 DEF FitAt, Gets
  <1>10. \A u \in Thread : FitAt(u, {}, pos, m)'
    BY <1>1, <1>5, <1>7, <1>9, FitOwner DEF OfWaiters
  <1>11. WaitHolds({}, T, pos, r, m)'
    BY <1>1, <1>3, <1>5, <1>6, <1>7, <1>8, <1>10, HoldsList
  <1> QED BY <1>11 DEF WaitHeld

-----------------------------------------------------------------------------
(* A waker takes blocks off the list.                                      *)

\* It meets one of its address.
Meets(t, L, pos, m, f) ==
  /\ Locks(t) /\ waitPc[t] = "scan" /\ pBlock = m /\ waitCurrent.block = m
  /\ t \notin L /\ ~Listed(t) /\ f \in L /\ pos[f] <= pos[m]

LEMMA ScanMeets ==
  ASSUME OfWaiters, NEW L \in SUBSET Thread, NEW T \in [Thread -> SUBSET Thread],
         NEW pos \in [Thread -> Nat], NEW r \in [Thread -> Nat], NEW m \in Block, WaitHolds(L, T, pos, r, m),
         NEW t \in Thread, waitPc[t] = "scan", Waits!Met(t) # {}
  PROVE  Meets(t, L, pos, m, Waits!First(t))
  <1>1. WaitLinks /\ Queued(L, pos, m) /\ Placed(L, T) /\ Fit(L, pos, m)
    BY DEF WaitHolds
  <1>2. PICK p : p = pItem[t]
    OBVIOUS
  <1>3. PICK S : S = Waits!Met(t)
    OBVIOUS
  <1>4. S \in SUBSET Follow(waitNotify, p) /\ S # {}
    BY <1>2, <1>3, WaitFollow DEF Waits!Met
  <1>5. p # Null
    BY <1>4, FollowNone
  <1>6. Locks(t) /\ pBlock = m /\ waitCurrent.block = m /\ p \in L /\ pos[p] <= pos[m]
    BY <1>1, <1>2, <1>5 DEF Fit, FitAt
  <1>7. PICK f : f = Waits!First(t)
    OBVIOUS
  <1>8. f = FirstOf(waitNotify, S)
    BY <1>3, <1>7, WaitFollow DEF Waits!First, FirstOf
  <1>9. f \in L /\ pos[f] <= pos[m]
    <2>1. Queue(waitBack, waitNext, waitNotify, L, bucket.block, pos, m)
      BY <1>1 DEF Queued
    <2>2. waitBack \in [Thread -> Block] /\ waitNext \in [Thread -> Block] /\ waitNotify \in [Thread -> Block]
      BY <1>1 DEF WaitLinks
    <2>3. Leads(L, pos, m, S, f)
      BY <1>4, <1>6, <1>8, <2>1, <2>2, FirstIs
    <2> QED BY <2>3 DEF Leads
  <1>10. t \notin L /\ ~Listed(t)
    <2>1. ~Listed(t)
      BY DEF Listed, OnQueue, ToSet, ToRelease, Drains
    <2> QED BY <1>1, <2>1, NotPlaced
  <1> QED BY <1>6, <1>7, <1>9, <1>10 DEF Meets

\* The block goes from the list into its hand.
LEMMA HoldsTakes ==
  ASSUME OfWaiters, NEW L \in SUBSET Thread, NEW T \in [Thread -> SUBSET Thread],
         NEW pos \in [Thread -> Nat], NEW r \in [Thread -> Nat], NEW m \in Block, WaitHolds(L, T, pos, r, m),
         NEW t \in Thread, Alone(t), FlagsBut(t),
         NEW f, Meets(t, L, pos, m, f), NEW c, NEW item, Gets(t, "take", c, flag[t], f, LastWake[t], item), NEW m1 \in Block,
         WaitLinks', Queued(L \ {f}, pos, m1)',
         \A x \in Thread \ L : waitBack'[x] = waitBack[x] /\ waitNotify'[x] = waitNotify[x],
         item # Null => /\ Locks(t)' /\ pBlock' = m1 /\ waitCurrent'.block = m1
                        /\ item \in L \ {f} /\ pos[item] <= pos[m1]
  PROVE  WaitHeld'
  <1>1. WaitLinks /\ Queued(L, pos, m) /\ Placed(L, T) /\ Fit(L, pos, m)
    BY DEF WaitHolds
  <1>2. PICK L1 : L1 = L \ {f}
    OBVIOUS
  <1>3. /\ Locks(t) /\ waitPc[t] = "scan" /\ t \notin L /\ ~Listed(t) /\ f \in L /\ f # t
        /\ L1 \in SUBSET Thread /\ L1 \subseteq L
    BY <1>2 DEF Meets
  <1>4. inHand[t] = Null
    BY <1>3 DEF OfWaiters, WaiterInv, WaiterAt, Fits
  <1>5. waitPc'[t] = "take" /\ inHand'[t] = f /\ LastWake'[t] = LastWake[t] /\ pItem'[t] = item
    BY DEF Gets
  <1>6. HeadOf(t)' = HeadOf(t) /\ ~Drains(t)' /\ ~Drains(t)
    BY <1>3, <1>5 DEF HeadOf, Drains
  <1>7. FitAt(t, L1, pos, m1)'
    BY <1>2, <1>5 DEF FitAt
  <1>8. \A u \in Thread : FitAt(u, L1, pos, m1)'
    BY <1>1, <1>3, <1>7, FitOwner DEF OfWaiters
  <1>9. inHand'[t] \in L \ L1 /\ inHand'[t] # t
    BY <1>2, <1>3, <1>5
  <1>10. Queued(L1, pos, m1)'
    BY <1>2
  <1>11. /\ \A x \in L1 : x \in L \/ (x = t /\ ~Listed(t))
         /\ \A x \in Thread \ L : waitBack'[x] = waitBack[x] \/ (x = t /\ ~Listed(t))
    BY <1>3
  <1>12. (t \in L1 => OnQueue(t)') /\ ((ToSet(t) => ToSet(t)') /\ (ToRelease(t) => ToRelease(t)'))
    BY <1>3 DEF Listed
  <1>13. WaitHolds(L1, T, pos, r, m1)'
    BY <1>3, <1>4, <1>6, <1>8, <1>9, <1>10, <1>11, <1>12, HoldsList
  <1> QED BY <1>3, <1>13 DEF WaitHeld

LEMMA HeldHoldOlder ==
  ASSUME OfWaiters, NEW L \in SUBSET Thread, NEW T \in [Thread -> SUBSET Thread],
         NEW pos \in [Thread -> Nat], NEW r \in [Thread -> Nat], NEW m \in Block, WaitHolds(L, T, pos, r, m),
         NEW t \in Thread, Waits!HoldOlder(t)
  PROVE  OfWaiters' /\ WaitHeld'
  <1>1. WaitLinks /\ Queued(L, pos, m)
    BY DEF WaitHolds
  <1>2. PICK f : f = Waits!First(t)
    OBVIOUS
  <1>3. Meets(t, L, pos, m, f)
    BY <1>2, ScanMeets DEF Waits!HoldOlder
  <1>4. Locks(t) /\ waitPc[t] = "scan" /\ pBlock = m /\ waitCurrent.block = m /\ f \in L /\ pos[f] <= pos[m] /\ f # m
    BY <1>2, <1>3 DEF Meets, Waits!HoldOlder
  <1>5. Queue(waitBack, waitNext, waitNotify, L, bucket.block, pos, m)
    BY <1>1 DEF Queued
  <1>6. pos[f] < pos[m] /\ f \in Thread
    <2>1. m \in L /\ pos[f] \in Nat /\ pos[m] \in Nat
      BY <1>4, <1>5, QueueTypes
    <2>2. pos[f] # pos[m]
      BY <1>4, <1>5, <2>1 DEF Queue, Ordered
    <2> QED BY <1>4, <2>1, <2>2
  <1>7. waitBack \in [Thread -> Block] /\ waitNext \in [Thread -> Block] /\ waitNotify \in [Thread -> Block]
    BY <1>1 DEF WaitLinks
  <1>8. PICK link1, known1, forth1 : link1 = waitBack' /\ known1 = waitNext' /\ forth1 = waitNotify'
    OBVIOUS
  <1>9. Drawn(waitBack, waitNext, waitNotify, link1, known1, forth1, m, f)
    BY <1>2, <1>4, <1>8 DEF Drawn, Waits!HoldOlder
  <1>10. /\ QueueWithout(waitBack, waitNext, waitNotify, link1, known1, forth1, L \ {f}, bucket.block, pos, m)
         /\ waitNotify[f] \in L \ {f} /\ pos[waitNotify[f]] <= pos[m]
    BY <1>4, <1>5, <1>6, <1>7, <1>9, QueueDrawn
  <1>11. UNCHANGED <<bucket, waitCurrent, pBlock, waitCall>>
    BY DEF Waits!HoldOlder, Waits!owner
  <1>12. /\ WaitLinks' /\ Queued(L \ {f}, pos, m)'
         /\ \A x \in Thread \ L : waitBack'[x] = waitBack[x] /\ waitNotify'[x] = waitNotify[x]
    BY <1>8, <1>10, <1>11 DEF QueueWithout, WaitLinks, Queued
  <1>13. PICK item : item = waitNotify[f]
    OBVIOUS
  <1>14. item \in Block /\ f \in Block
    BY <1>6, <1>7, <1>13 DEF Block
  <1>15. OfWaiters' /\ Alone(t) /\ FlagsBut(t) /\ Gets(t, "take", waitCall[t], flag[t], f, LastWake[t], item)
    BY <1>2, <1>4, <1>6, <1>13, <1>14, HoldOlderDoes
  <1>16. Locks(t)'
    BY <1>4, <1>15 DEF Locks, Gets
  <1>17. item \in L \ {f} /\ pos[item] <= pos[m] /\ pBlock' = m /\ waitCurrent'.block = m
    BY <1>4, <1>10, <1>11, <1>13
  <1> QED BY <1>3, <1>12, <1>15, <1>16, <1>17, HoldsTakes

LEMMA HeldHoldNewest ==
  ASSUME OfWaiters, NEW L \in SUBSET Thread, NEW T \in [Thread -> SUBSET Thread],
         NEW pos \in [Thread -> Nat], NEW r \in [Thread -> Nat], NEW m \in Block, WaitHolds(L, T, pos, r, m),
         NEW t \in Thread, Waits!HoldNewest(t), bucket = waitCurrent
  PROVE  OfWaiters' /\ WaitHeld'
  <1>1. WaitLinks /\ Queued(L, pos, m)
    BY DEF WaitHolds
  <1>2. PICK f : f = Waits!First(t)
    OBVIOUS
  <1>3. Meets(t, L, pos, m, f)
    BY <1>2, ScanMeets DEF Waits!HoldNewest
  <1>4. /\ Locks(t) /\ waitPc[t] = "scan" /\ pBlock = f /\ f = m /\ bucket.block = m
        /\ f \in L /\ f \in Thread /\ f # Null
    BY <1>2, <1>3, NullIsNoThread DEF Meets, Waits!HoldNewest
  <1>5. Queue(waitBack, waitNext, waitNotify, L, f, pos, f)
    BY <1>1, <1>4 DEF Queued
  <1>6. waitBack \in [Thread -> Block] /\ waitNext \in [Thread -> Block] /\ waitNotify \in [Thread -> Block]
    BY <1>1 DEF WaitLinks
  <1>7. PICK older, known1, forth1 : older = waitBack[f] /\ known1 = waitNext' /\ forth1 = waitNotify'
    OBVIOUS
  <1>8. older \in Block
    BY <1>4, <1>6, <1>7
  <1>9. Popped(waitBack, waitNext, waitNotify, known1, forth1, f) /\ waitBack' = waitBack
    BY <1>2, <1>4, <1>7 DEF Popped, Waits!HoldNewest
  <1>10. /\ QueueWithout(waitBack, waitNext, waitNotify, waitBack, known1, forth1, L \ {f}, older, pos, older)
         /\ waitNotify[f] = Null
    <2>1. /\ QueueWithout(waitBack, waitNext, waitNotify, waitBack, known1, forth1, L \ {f}, waitBack[f], pos, waitBack[f])
          /\ waitNotify[f] = Null /\ f \in L
      <3>1. PICK link, known, forth : link = waitBack /\ known = waitNext /\ forth = waitNotify
        OBVIOUS
      <3>2. link \in [Thread -> Block] /\ known \in [Thread -> Block] /\ forth \in [Thread -> Block]
        BY <1>6, <3>1
      <3>3. Queue(link, known, forth, L, f, pos, f) /\ f # Null /\ Popped(link, known, forth, known1, forth1, f)
        BY <1>4, <1>5, <1>9, <3>1
      <3>4. QueueWithout(link, known, forth, link, known1, forth1, L \ {f}, link[f], pos, link[f]) /\ forth[f] = Null /\ f \in L
        BY <3>2, <3>3, QueuePop
      <3> QED BY <3>1, <3>4
    <2> QED BY <1>7, <2>1
  <1>11. bucket'.block = older
    <2>1. bucket' = IF older = Null THEN Waits!Empty ELSE [bucket EXCEPT !.block = older]
      BY <1>4, <1>7 DEF Waits!HoldNewest
    <2> QED BY <1>8, <2>1, BucketNew, BucketIs DEF OfWaiters, BucketType
  <1>12. /\ WaitLinks' /\ Queued(L \ {f}, pos, older)'
         /\ \A x \in Thread \ L : waitBack'[x] = waitBack[x] /\ waitNotify'[x] = waitNotify[x]
    BY <1>7, <1>9, <1>10, <1>11 DEF QueueWithout, WaitLinks, Queued
  <1>13. PICK c : OfWaiters' /\ Alone(t) /\ FlagsBut(t) /\ Gets(t, "take", c, flag[t], f, LastWake[t], Null)
    <2>1. waitNotify[Waits!First(t)] \in Block /\ waitNotify[Waits!First(t)] = Null /\ Waits!First(t) \in Thread
      BY <1>2, <1>4, <1>10 DEF Block
    <2>2. CASE older = Null
      BY <1>2, <1>4, <1>7, <2>1, <2>2, HoldLastDoes
    <2>3. CASE older # Null
      BY <1>2, <1>4, <1>7, <1>8, <2>1, <2>3, HoldNewestDoes DEF Block
    <2> QED BY <2>2, <2>3
  <1> QED BY <1>3, <1>8, <1>12, <1>13, HoldsTakes

LEMMA HeldHoldAgain ==
  ASSUME OfWaiters, NEW L \in SUBSET Thread, NEW T \in [Thread -> SUBSET Thread],
         NEW pos \in [Thread -> Nat], NEW r \in [Thread -> Nat], NEW m \in Block, WaitHolds(L, T, pos, r, m),
         NEW t \in Thread, Waits!HoldNewest(t), bucket # waitCurrent
  PROVE  OfWaiters' /\ WaitHeld'
  <1>1. WaitLinks /\ Queued(L, pos, m)
    BY DEF WaitHolds
  <1>2. PICK h : h = bucket.block
    OBVIOUS
  <1>3. Meets(t, L, pos, m, Waits!First(t))
    BY ScanMeets DEF Waits!HoldNewest
  <1>4. Locks(t) /\ waitPc[t] = "scan" /\ L # {}
    BY <1>3 DEF Meets
  <1>5. h \in L /\ pos[m] <= pos[h] /\ h # Null
    BY <1>1, <1>2, <1>4, QueueIs
  <1>6. bucket' = bucket /\ Waits!BeginScan(t, bucket)
    BY DEF Waits!HoldNewest
  <1>7. MarksFrom(h) /\ bucket'.block = bucket.block /\ waitCurrent'.block = h /\ pBlock' = h
    BY <1>2, <1>6 DEF Waits!BeginScan, Waits!Mark, MarksFrom
  <1>8. Waits!Oldest(h) \in Block
    BY <1>1, <1>5, <1>7, MarksIs DEF Block
  <1>9. OfWaiters' /\ Alone(t) /\ FlagsBut(t)
        /\ Gets(t, "scan", waitCall[t], flag[t], inHand[t], LastWake[t], Waits!Oldest(h))
    BY <1>2, <1>4, <1>8, HoldAgainDoes
  <1>10. Locks(t)'
    BY <1>4, <1>9 DEF Locks, Gets
  <1>11. WaitHolds(L, T, pos, r, h)' /\ h \in Block
    BY <1>2, <1>4, <1>5, <1>7, <1>9, <1>10, HoldsBegins
  <1> QED BY <1>9, <1>11 DEF WaitHeld

-----------------------------------------------------------------------------
(* Wakers set the flags of the blocks they have.                           *)

\* A block whose thread is about to be woken, and is in the kernel, can be released once its flag is set.
LEMMA SetAsleep ==
  ASSUME OfWaiters, NEW b \in Thread, ToSet(b)
  PROVE  /\ waitPc[b] \notin {"idle", "add", "take", "scan"}
         /\ flag[b] = Waits!Kernel => waitPc[b] \in {"kernel", "kernelLocked"}
  BY DEF OfWaiters, WaiterInv, WaiterAt, Fits, ToSet, Drains, InBoth, Waits!Spinning, Waits!Kernel, Waits!Woken

LEMMA HeldWakeNext ==
  ASSUME OfWaiters, NEW L \in SUBSET Thread, NEW T \in [Thread -> SUBSET Thread],
         NEW pos \in [Thread -> Nat], NEW r \in [Thread -> Nat], NEW m \in Block, WaitHolds(L, T, pos, r, m),
         NEW t \in Thread, Waits!WakeNext(t), pItem[t] # Null
  PROVE  OfWaiters' /\ WaitHeld'
  <1>1. /\ WaitLinks /\ Queued(L, pos, m) /\ Carries(T, r) /\ Disjoint(L, T) /\ Placed(L, T) /\ Fit(L, pos, m)
        /\ waitPc[t] = "wakeList" /\ WaiterAt(t) /\ Drains(t)
    BY DEF WaitHolds, Waits!WakeNext, OfWaiters, WaiterInv, Drains
  <1>2. PICK b : b = pItem[t]
    OBVIOUS
  <1>3. HeadOf(t) = b /\ b # Null /\ inHand[t] = Null /\ LastWake[t] = Null
    BY <1>1, <1>2 DEF HeadOf, WaiterAt, Fits
  <1>4. b \in T[t] /\ b \in Thread /\ Ordered(waitBack, T[t], b, r)
    BY <1>1, <1>3, CarriedIs
  <1>5. b \notin L /\ ToSet(b) /\ \A u \in Thread : u # t => b \notin T[u]
    BY <1>1, <1>4 DEF Disjoint, Placed
  <1>6. PICK asleep \in BOOLEAN : asleep <=> flag[b] = Waits!Kernel
    OBVIOUS
  <1>7. PICK p, hand, item :
          /\ p = IF asleep THEN "release" ELSE "wakeList"
          /\ hand = IF asleep THEN b ELSE Null
          /\ item = waitBack[b]
    OBVIOUS
  <1>8. item \in Block /\ hand \in Block /\ LastWake[t] \in Block /\ p \in InPlaces
    BY <1>1, <1>4, <1>7 DEF WaitLinks, Block, OfWaiters, BucketType, InPlaces, InBoth
  <1>9. /\ flag' = [flag EXCEPT ![b] = Waits!Woken] /\ pItem' = [pItem EXCEPT ![t] = item]
        /\ UNCHANGED <<bucket, waitCurrent, pBlock, waitCall, LastWake, waitBack, waitNotify, waitNext>>
        /\ IF flag[b] = Waits!Kernel THEN inHand' = [inHand EXCEPT ![t] = b] /\ waitPc' = [waitPc EXCEPT ![t] = "release"]
                                     ELSE UNCHANGED <<inHand, waitPc>>
    BY <1>2, <1>3, <1>7 DEF Waits!WakeNext, Waits!Goto, Waits!links, Waits!owner
  <1>10. Sets(t, b, p, hand, LastWake[t], item)
    BY <1>1, <1>3, <1>6, <1>7, <1>9 DEF Sets, OfWaiters, BucketType
  <1>11. Fits(p, waitCall[t], flag[t], hand, LastWake[t], item)
    BY <1>1, <1>3, <1>4, <1>7, NullIsNoThread DEF WaiterAt, Fits, InWait, InSleep, InWake, InBoth
  <1>12. Locks(t)' <=> Locks(t)
    BY <1>1, <1>9 DEF Locks, OfWaiters, BucketType
  <1>13. /\ OfWaiters' /\ Alone(t) /\ FlagsBut(b) /\ flag'[b] = Waits!Woken
         /\ Gets(t, p, waitCall[t], IF b = t THEN Waits!Woken ELSE flag[t], hand, LastWake[t], item)
    <2>1. p \notin {"idle", "add"} /\ p # "removeFirst" /\ waitPc[b] \notin {"idle", "add"}
      BY <1>4, <1>5, <1>7, SetAsleep
    <2> QED BY <1>4, <1>8, <1>10, <1>11, <1>12, <2>1, SetsIs
  <1>14. PICK S : S = T[t] \ {b}
    OBVIOUS
  <1>15. PICK T1 : T1 = [T EXCEPT ![t] = S]
    OBVIOUS
  <1>16. S \in SUBSET Thread /\ T1 \in [Thread -> SUBSET Thread]
    BY <1>14, <1>15
  <1>17. Drains(t)' /\ HeadOf(t)' = item /\ inHand'[t] = hand /\ waitPc'[t] = p
    BY <1>7, <1>13 DEF Gets, Drains, HeadOf
  <1>18. Ordered(waitBack', S, HeadOf(t)', r)
    <2>1. Ordered(waitBack, T[t] \ {b}, waitBack[b], r)
      BY <1>1, <1>3, <1>4, OrderedPop DEF WaitLinks
    <2> QED BY <1>7, <1>9, <1>14, <1>17, <2>1
  <1>19. WaitLinks' /\ Queued(L, pos, m)'
    BY <1>1, <1>9 DEF WaitLinks, Queued
  <1>20. OthersKept(t, T, r, r)
    BY <1>9 DEF OthersKept
  <1>21. Hand(t)' \subseteq {b}
    BY <1>7, <1>17 DEF Hand
  <1>22. Splits(t, L, T, L, S)
    <2>1. L \cap T[t] = {}
      BY <1>1 DEF Disjoint
    <2> QED BY <1>4, <1>5, <1>14, <1>21, <2>1 DEF Splits
  <1>23. Sits(t, L, S)
    <2>1. ASSUME NEW x \in L
          PROVE  OnQueue(x)'
      <3>1. OnQueue(x) /\ x # t /\ x # b
        BY <1>1, <1>5 DEF Placed, OnQueue
      <3> QED BY <1>4, <1>13, <3>1, StillPlaced
    <2>2. ASSUME NEW x \in S
          PROVE  ToSet(x)'
      <3>1. ToSet(x) /\ x # b /\ x \in Thread
        BY <1>1, <1>14, <1>16 DEF Placed
      <3>2. CASE x # t
        BY <1>4, <1>13, <3>1, <3>2, StillPlaced
      <3>3. CASE x = t
        BY <1>1, <1>13, <1>17, <3>1, <3>3 DEF ToSet, Drains, Gets
      <3> QED BY <3>2, <3>3
    <2>3. ASSUME inHand'[t] # Null
          PROVE  ToRelease(inHand[t])'
      <3>1. asleep /\ inHand'[t] = b
        BY <1>7, <1>17, <2>3
      <3>2. waitPc[b] \in {"kernel", "kernelLocked"} /\ b # t
        BY <1>1, <1>4, <1>5, <1>6, <3>1, SetAsleep
      <3>3. waitPc'[b] = waitPc[b]
        BY <1>4, <1>13, <3>2 DEF Alone
      <3>4. ToRelease(b)'
        BY <1>13, <3>2, <3>3 DEF ToRelease
      <3> QED BY <3>1, <3>4
    <2> QED BY <1>17, <2>1, <2>2, <2>3 DEF Sits
  <1>24. t \in L \cup T[t] \cup Hand(t) \/ ((ToSet(t) => ToSet(t)') /\ (ToRelease(t) => ToRelease(t)'))
    <2>1. SUFFICES ASSUME t \notin T[t]
                   PROVE  (ToSet(t) => ToSet(t)') /\ (ToRelease(t) => ToRelease(t)')
      OBVIOUS
    <2>2. b # t
      BY <1>4, <2>1
    <2> QED BY <1>1, <1>13, <1>17, <2>2 DEF ToSet, ToRelease, Drains, Gets
  <1>25. \A u \in Thread : FitAt(u, L, pos, m)'
    <2>1. FitAt(t, L, pos, m)'
      BY <1>7, <1>17 DEF FitAt
    <2>2. ASSUME NEW u \in Thread, u # t
          PROVE  FitAt(u, L, pos, m)'
      BY <1>1, <1>9, <1>13, <2>2, FitOthers DEF OfWaiters
    <2> QED BY <2>1, <2>2
  <1>26. b = t \/ b \in T[t] \/ b = inHand[t]
    BY <1>4
  <1>27. WaitHolds(L, T1, pos, r, m)'
    BY <1>4, <1>13, <1>15, <1>16, <1>18, <1>19, <1>20, <1>22, <1>23, <1>24, <1>25, <1>26, HoldsMoves
  <1> QED BY <1>13, <1>16, <1>27 DEF WaitHeld

LEMMA HeldTake ==
  ASSUME OfWaiters, NEW L \in SUBSET Thread, NEW T \in [Thread -> SUBSET Thread],
         NEW pos \in [Thread -> Nat], NEW r \in [Thread -> Nat], NEW m \in Block, WaitHolds(L, T, pos, r, m),
         NEW t \in Thread, Waits!Take(t)
  PROVE  OfWaiters' /\ WaitHeld'
  <1>1. /\ WaitLinks /\ Queued(L, pos, m) /\ Carries(T, r) /\ Disjoint(L, T) /\ Placed(L, T) /\ Fit(L, pos, m)
        /\ waitPc[t] = "take" /\ WaiterAt(t) /\ ~Drains(t)
    BY DEF WaitHolds, Waits!Take, OfWaiters, WaiterInv, Drains
  <1>2. PICK b : b = inHand[t]
    OBVIOUS
  <1>3. HeadOf(t) = LastWake[t] /\ b # Null /\ b \in Thread /\ waitCall[t] \in Waking1
    BY <1>1, <1>2 DEF HeadOf, WaiterAt, Fits, OfWaiters, BucketType, Block, InWake
  <1>4. Ordered(waitBack, T[t], LastWake[t], r) /\ T[t] \subseteq Thread
    BY <1>1, <1>3 DEF Carries
  <1>5. b \notin L /\ b # t /\ ToSet(b) /\ \A u \in Thread : b \notin T[u]
    <2>1. ToSet(b) /\ b \notin L /\ \A u \in Thread : b \notin T[u]
      BY <1>1, <1>2, <1>3 DEF Disjoint, Placed
    <2> QED BY <1>1, <1>3, <2>1, SetAsleep
  <1>6. PICK asleep \in BOOLEAN : asleep <=> flag[b] = Waits!Kernel
    OBVIOUS
  <1>7. PICK p, last, link :
          /\ p = IF flag[b] # Waits!Woken /\ ~waitCall[t].all THEN "releaseAll" ELSE "scan"
          /\ last = IF asleep THEN b ELSE LastWake[t]
          /\ link = IF asleep THEN LastWake[t] ELSE waitBack[b]
    OBVIOUS
  <1>8. LastWake[t] \in Block /\ pItem[t] \in Block /\ last \in Block /\ link \in Block /\ Null \in Block /\ p \in InPlaces
    BY <1>1, <1>3, <1>7 DEF WaitLinks, Block, OfWaiters, BucketType, InPlaces, InWake
  <1>9. /\ flag' = [flag EXCEPT ![b] = Waits!Woken] /\ waitBack' = [waitBack EXCEPT ![b] = link]
        /\ LastWake' = [LastWake EXCEPT ![t] = last] /\ inHand' = [inHand EXCEPT ![t] = Null]
        /\ waitPc' = [waitPc EXCEPT ![t] = p]
        /\ UNCHANGED <<bucket, waitCurrent, pBlock, waitCall, pItem, waitNotify, waitNext>>
    BY <1>2, <1>6, <1>7 DEF Waits!Take, Waits!Goto, Waits!owner
  <1>10. Sets(t, b, p, Null, last, pItem[t])
    BY <1>9 DEF Sets, OfWaiters, BucketType
  <1>11. Fits(p, waitCall[t], flag[t], Null, last, pItem[t])
    BY <1>1, <1>7 DEF WaiterAt, Fits, InWait, InSleep, InWake, InBoth
  <1>12. Locks(t)' <=> Locks(t)
    BY <1>1, <1>7, <1>9 DEF Locks, OfWaiters, BucketType
  <1>13. /\ OfWaiters' /\ Alone(t) /\ FlagsBut(b) /\ flag'[b] = Waits!Woken
         /\ Gets(t, p, waitCall[t], flag[t], Null, last, pItem[t])
    <2>1. p \notin {"idle", "add"} /\ p # "removeFirst" /\ waitPc[b] \notin {"idle", "add"}
      BY <1>3, <1>5, <1>7, SetAsleep
    <2>2. /\ OfWaiters' /\ Alone(t) /\ FlagsBut(b) /\ flag'[b] = Waits!Woken
          /\ Gets(t, p, waitCall[t], IF b = t THEN Waits!Woken ELSE flag[t], Null, last, pItem[t])
      BY <1>3, <1>8, <1>10, <1>11, <1>12, <2>1, SetsIs
    <2> QED BY <1>5, <2>2
  <1>14. PICK n \in Nat : \A x \in T[t] : r[x] < n
    BY <1>4, NextNumber
  <1>15. PICK S, r1 : S = (IF asleep THEN T[t] \cup {b} ELSE T[t]) /\ r1 = [r EXCEPT ![b] = n]
    OBVIOUS
  <1>16. PICK T1 : T1 = [T EXCEPT ![t] = S]
    OBVIOUS
  <1>17. S \in SUBSET Thread /\ T1 \in [Thread -> SUBSET Thread] /\ r1 \in [Thread -> Nat] /\ S \subseteq T[t] \cup {b}
    BY <1>3, <1>4, <1>15, <1>16
  <1>18. ~Drains(t)' /\ HeadOf(t)' = last /\ inHand'[t] = Null /\ waitPc'[t] = p
    BY <1>7, <1>13 DEF Gets, Drains, HeadOf
  <1>19. \A x \in Thread : x # b => waitBack'[x] = waitBack[x] /\ r1[x] = r[x]
    BY <1>1, <1>9, <1>15 DEF WaitLinks
  <1>20. Ordered(waitBack', S, HeadOf(t)', r1)
    <2>1. CASE asleep
      <3>1. PICK new : new = waitBack'
        OBVIOUS
      <3>2. new = [waitBack EXCEPT ![b] = LastWake[t]]
        BY <1>7, <1>9, <2>1, <3>1
      <3>3. Ordered(new, T[t] \cup {b}, b, r1)
        BY <1>1, <1>3, <1>4, <1>5, <1>14, <1>15, <3>2, OrderedPush DEF WaitLinks
      <3> QED BY <1>7, <1>15, <1>18, <2>1, <3>1, <3>3
    <2>2. CASE ~asleep
      <3>1. \A x \in T[t] : waitBack'[x] = waitBack[x] /\ r1[x] = r[x]
        BY <1>4, <1>5, <1>19
      <3>2. Ordered(waitBack', T[t], LastWake[t], r1)
        BY <1>4, <3>1, OrderedAlike
      <3> QED BY <1>7, <1>15, <1>18, <2>2, <3>2
    <2> QED BY <2>1, <2>2
  <1>21. WaitLinks'
    BY <1>1, <1>8, <1>9 DEF WaitLinks
  <1>22. Queued(L, pos, m)'
    <2>1. PICK new : new = waitBack'
      OBVIOUS
    <2>2. \A x \in L : new[x] = waitBack[x] /\ waitNext[x] = waitNext[x] /\ waitNotify[x] = waitNotify[x]
      BY <1>5, <1>19, <2>1
    <2>3. Queue(waitBack, waitNext, waitNotify, L, bucket.block, pos, m)
      BY <1>1 DEF Queued
    <2>4. Queue(new, waitNext, waitNotify, L, bucket.block, pos, m)
      BY <2>2, <2>3, QueueSame
    <2> QED BY <1>9, <2>1, <2>4 DEF Queued
  <1>23. OthersKept(t, T, r, r1)
    BY <1>5, <1>19 DEF OthersKept
  <1>24. Splits(t, L, T, L, S)
    <2>1. L \cap T[t] = {} /\ Hand(t)' = {} /\ b \in Hand(t)
      BY <1>1, <1>2, <1>3, <1>18 DEF Disjoint, Hand
    <2> QED BY <1>5, <1>17, <2>1 DEF Splits
  <1>25. Sits(t, L, S)
    <2>1. ASSUME NEW x \in L
          PROVE  OnQueue(x)'
      <3>1. OnQueue(x) /\ x # t /\ x # b
        BY <1>1, <1>5 DEF Placed, OnQueue
      <3> QED BY <1>3, <1>13, <3>1, StillPlaced
    <2>2. ASSUME NEW x \in S
          PROVE  ToRelease(x)'
      <3>1. CASE x = b
        <4>1. waitPc[b] \in {"kernel", "kernelLocked"}
          BY <1>3, <1>5, <1>6, <1>15, <2>2, <3>1, SetAsleep
        <4>2. waitPc'[b] = waitPc[b]
          BY <1>3, <1>5, <1>13 DEF Alone
        <4> QED BY <1>13, <3>1, <4>1, <4>2 DEF ToRelease
      <3>2. CASE x # b
        <4>1. ToRelease(x) /\ x \in Thread
          BY <1>1, <1>17, <3>2 DEF Placed
        <4>2. x # t
          BY <1>1, <4>1 DEF ToRelease
        <4> QED BY <1>3, <1>13, <3>2, <4>1, <4>2, StillPlaced
      <3> QED BY <3>1, <3>2
    <2> QED BY <1>18, <2>1, <2>2 DEF Sits
  <1>26. (ToSet(t) => ToSet(t)') /\ (ToRelease(t) => ToRelease(t)')
    BY <1>1 DEF ToSet, ToRelease, Drains
  <1>27. \A u \in Thread : FitAt(u, L, pos, m)'
    <2>1. FitAt(t, L, pos, m)'
      <3>1. FitAt(t, L, pos, m)
        BY <1>1 DEF Fit
      <3> QED BY <1>1, <1>7, <1>9, <1>12, <1>13, <1>18, <3>1 DEF FitAt, Gets
    <2>2. ASSUME NEW u \in Thread, u # t
          PROVE  FitAt(u, L, pos, m)'
      BY <1>1, <1>9, <1>13, <2>2, FitOthers DEF OfWaiters
    <2> QED BY <2>1, <2>2
  <1>28. b = t \/ b \in T[t] \/ b = inHand[t]
    BY <1>2
  <1>29. WaitHolds(L, T1, pos, r1, m)'
    BY <1>3, <1>13, <1>16, <1>17, <1>20, <1>21, <1>22, <1>23, <1>24, <1>25, <1>26, <1>27, <1>28, HoldsMoves
  <1> QED BY <1>13, <1>17, <1>29 DEF WaitHeld

\* The owner unlocks the list and has the whole of it.
LEMMA HoldsWhole ==
  ASSUME OfWaiters, NEW L \in SUBSET Thread, NEW T \in [Thread -> SUBSET Thread],
         NEW pos \in [Thread -> Nat], NEW r \in [Thread -> Nat], NEW m \in Block, WaitHolds(L, T, pos, r, m),
         NEW t \in Thread, Locks(t), waitPc[t] \in {"optimize", "unlock"}, Alone(t), FlagsBut(t),
         Gets(t, "wakeList", waitCall[t], flag[t], inHand[t], LastWake[t], bucket.block),
         bucket'.block = Null, waitBack' = waitBack, WaitLinks', \A x \in Thread \ L : waitNotify'[x] = waitNotify[x]
  PROVE  WaitHeld'
  <1>1. /\ WaitLinks /\ Queued(L, pos, m) /\ Carries(T, r) /\ Disjoint(L, T) /\ Placed(L, T) /\ Fit(L, pos, m) /\ WaiterAt(t)
    BY DEF WaitHolds, OfWaiters, WaiterInv
  <1>2. inHand[t] = Null /\ LastWake[t] = Null /\ HeadOf(t) = Null /\ ~Drains(t)
    BY <1>1 DEF WaiterAt, Fits, HeadOf, Drains
  <1>3. T[t] = {}
    BY <1>1, <1>2, CarriedIs
  <1>4. PICK T1, r1 : T1 = [T EXCEPT ![t] = L] /\ r1 = [x \in Thread |-> IF x \in L THEN pos[x] ELSE r[x]]
    OBVIOUS
  <1>5. T1 \in [Thread -> SUBSET Thread] /\ r1 \in [Thread -> Nat]
    BY <1>4
  <1>6. Drains(t)' /\ HeadOf(t)' = bucket.block /\ inHand'[t] = Null /\ Hand(t)' = {}
    BY <1>2 DEF Gets, Drains, HeadOf, Hand
  <1>7. Ordered(waitBack', L, HeadOf(t)', r1)
    <2>1. Ordered(waitBack, L, bucket.block, pos) /\ \A x \in L : r1[x] = pos[x]
      BY <1>1, <1>4 DEF Queued, Queue
    <2>2. Ordered(waitBack, L, bucket.block, r1)
      BY <2>1, OrderedAlike
    <2> QED BY <1>6, <2>2
  <1>8. Queued({}, pos, m)'
    BY QueueNone DEF Queued
  <1>9. OthersKept(t, T, r, r1)
    <2>1. \A u \in Thread : \A x \in T[u] : x \notin L /\ x \in Thread
      BY <1>1 DEF Disjoint
    <2> QED BY <1>4, <2>1 DEF OthersKept
  <1>10. Splits(t, L, T, {}, L)
    BY <1>6 DEF Splits
  <1>11. Sits(t, {}, L)
    <2>1. ASSUME NEW x \in L
          PROVE  ToSet(x)'
      <3>1. OnQueue(x)
        BY <1>1 DEF Placed
      <3>2. CASE x # t
        <4>1. ToSet(x)
          BY <3>1, <3>2, QueueToSet DEF OfWaiters
        <4> QED BY <3>2, <4>1, StillPlaced
      <3>3. CASE x = t
        BY <1>1, <1>6, <3>1, <3>3 DEF OnQueue, ToSet, Gets, WaiterAt, Fits, InWait
      <3> QED BY <3>2, <3>3
    <2> QED BY <1>6, <2>1 DEF Sits
  <1>12. t \in L \cup T[t] \cup Hand(t) \/ ((ToSet(t) => ToSet(t)') /\ (ToRelease(t) => ToRelease(t)'))
    BY DEF ToSet, ToRelease, Drains
  <1>13. FitAt(t, {}, pos, m)'
    BY DEF FitAt, Gets
  <1>14. \A u \in Thread : FitAt(u, {}, pos, m)'
    BY <1>1, <1>13, FitOwner DEF OfWaiters
  <1>15. WaitHolds({}, T1, pos, r1, m)'
    BY <1>4, <1>7, <1>8, <1>9, <1>10, <1>11, <1>12, <1>14, HoldsMoves
  <1> QED BY <1>5, <1>15 DEF WaitHeld

LEMMA HeldOptimizeWakes ==
  ASSUME OfWaiters, NEW L \in SUBSET Thread, NEW T \in [Thread -> SUBSET Thread],
         NEW pos \in [Thread -> Nat], NEW r \in [Thread -> Nat], NEW m \in Block, WaitHolds(L, T, pos, r, m),
         NEW t \in Thread, Waits!Optimize(t), bucket = waitCurrent, bucket.wakeAll
  PROVE  WaitHeld'
  <1>1. waitPc[t] = "optimize" /\ Locks(t) /\ WaitLinks /\ Queued(L, pos, m) /\ Fit(L, pos, m)
    BY DEF Waits!Optimize, Locks, WaitHolds
  <1>2. Alone(t) /\ FlagsBut(t) /\ Gets(t, "wakeList", waitCall[t], flag[t], inHand[t], LastWake[t], bucket.block)
    BY OptimizeWakesDoes
  <1>3. PICK h : h = waitCurrent.block
    OBVIOUS
  <1>4. h \in L /\ pos[m] <= pos[h]
    BY <1>1, <1>3 DEF Fit, FitAt
  <1>5. MarksFrom(h)
    BY <1>3 DEF Waits!Optimize, Waits!Mark, MarksFrom
  <1>6. WaitLinks' /\ waitBack' = waitBack /\ \A x \in Thread \ L : waitNotify'[x] = waitNotify[x]
    BY <1>1, <1>4, <1>5, MarksIs
  <1>7. bucket'.block = Null
    <2>1. bucket' = Waits!Empty
      BY DEF Waits!Optimize, Waits!Unlock
    <2> QED BY <2>1, BucketNew
  <1> QED BY <1>1, <1>2, <1>6, <1>7, HoldsWhole

LEMMA HeldUnlockWakes ==
  ASSUME OfWaiters, NEW L \in SUBSET Thread, NEW T \in [Thread -> SUBSET Thread],
         NEW pos \in [Thread -> Nat], NEW r \in [Thread -> Nat], NEW m \in Block, WaitHolds(L, T, pos, r, m),
         NEW t \in Thread, Waits!UnlockList(t), bucket.wakeAll
  PROVE  WaitHeld'
  <1>1. waitPc[t] = "unlock" /\ Locks(t) /\ WaitLinks
    BY DEF Waits!UnlockList, Locks, WaitHolds
  <1>2. Alone(t) /\ FlagsBut(t) /\ Gets(t, "wakeList", waitCall[t], flag[t], inHand[t], LastWake[t], bucket.block)
    BY UnlockWakesDoes
  <1>3. UNCHANGED <<waitBack, waitNotify, waitNext>>
    BY DEF Waits!UnlockList, Waits!block, Waits!links
  <1>4. bucket'.block = Null
    <2>1. bucket' = Waits!Empty
      BY DEF Waits!UnlockList, Waits!Unlock
    <2> QED BY <2>1, BucketNew
  <1>5. WaitLinks'
    BY <1>1, <1>3 DEF WaitLinks
  <1> QED BY <1>1, <1>2, <1>3, <1>4, <1>5, HoldsWhole

-----------------------------------------------------------------------------
(* Wakers release the blocks they have.                                    *)

\* What t releases, b, is on no chain any more: of its own t keeps S.
Gone(t, b, L, T, S) ==
  /\ b \notin L /\ b \notin S /\ S \subseteq T[t] /\ Hand(t)' \cup {b} \subseteq Hand(t) \cup T[t]
  /\ \A u \in Thread : u # t => b \notin T[u] /\ b # inHand[u]

LEMMA HoldsFrees ==
  ASSUME OfWaiters, NEW L \in SUBSET Thread, NEW T \in [Thread -> SUBSET Thread],
         NEW pos \in [Thread -> Nat], NEW r \in [Thread -> Nat], NEW m \in Block, WaitHolds(L, T, pos, r, m),
         NEW t \in Thread, NEW b \in Thread, OfWaiters', WaitLinks', AloneWith(t, b), b # t,
         UNCHANGED <<bucket, waitCurrent, pBlock>>, waitPc[t] \in {"release", "releaseAll"}, waitPc'[t] \in {"wakeList", "releaseAll"},
         Drains(t)' <=> Drains(t),
         waitPc[b] \in {"kernel", "kernelAgain", "kernelLocked"},
         waitPc'[b] = "unlock" \/ (waitPc'[b] = "idle" /\ waitNotify'[b] = Null),
         NEW S \in SUBSET Thread, NEW T1 \in [Thread -> SUBSET Thread], T1 = [T EXCEPT ![t] = S], Gone(t, b, L, T, S),
         Ordered(waitBack, S, HeadOf(t)', r), inHand'[t] = Null
  PROVE  WaitHeld'
  <1>1. /\ WaitLinks /\ Queued(L, pos, m) /\ Carries(T, r) /\ Disjoint(L, T) /\ Placed(L, T) /\ Fit(L, pos, m)
    BY DEF WaitHolds
  <1>2. T1[t] = S /\ \A u \in Thread : u # t => T1[u] = T[u]
    OBVIOUS
  <1>3. /\ b \notin L /\ \A u \in Thread : b \notin T1[u] /\ (u # t => b # inHand[u])
        /\ \A u \in Thread : T1[u] \subseteq T[u]
    BY <1>2 DEF Gone
  <1>4. \A x \in Thread : x # b => waitBack'[x] = waitBack[x] /\ waitNotify'[x] = waitNotify[x] /\ waitNext'[x] = waitNext[x]
    BY DEF AloneWith
  <1>5. ASSUME NEW x \in Thread, x # b
        PROVE  (OnQueue(x) => OnQueue(x)') /\ (ToSet(x) => ToSet(x)') /\ (ToRelease(x) => ToRelease(x)')
    <2>1. CASE x = t
      BY <1>5, <2>1 DEF OnQueue, ToSet, ToRelease, Drains, AloneWith
    <2>2. CASE x # t
      BY <1>5, <2>2 DEF OnQueue, ToSet, ToRelease, Drains, AloneWith
    <2> QED BY <2>1, <2>2
  <1>6. ASSUME NEW u \in Thread, u # t
        PROVE  (Drains(u) \/ HeadOf(u) # Null \/ inHand[u] # Null => (Drains(u)' <=> Drains(u))) /\ inHand'[u] = inHand[u]
               /\ HeadOf(u)' = HeadOf(u)
    <2>1. inHand'[u] = inHand[u] /\ LastWake'[u] = LastWake[u] /\ pItem'[u] = pItem[u]
      BY <1>6 DEF AloneWith
    <2>2. CASE u = b
      BY <2>1, <2>2 DEF Drains, HeadOf
    <2>3. CASE u # b
      BY <1>6, <2>1, <2>3 DEF Drains, HeadOf, AloneWith
    <2> QED BY <2>2, <2>3
  <1>7. Queued(L, pos, m)'
    <2>1. PICK link1, known1, forth1 : link1 = waitBack' /\ known1 = waitNext' /\ forth1 = waitNotify'
      OBVIOUS
    <2>2. \A x \in L : link1[x] = waitBack[x] /\ known1[x] = waitNext[x] /\ forth1[x] = waitNotify[x]
      BY <1>3, <1>4, <2>1
    <2>3. Queue(waitBack, waitNext, waitNotify, L, bucket.block, pos, m)
      BY <1>1 DEF Queued
    <2>4. Queue(link1, known1, forth1, L, bucket.block, pos, m)
      BY <2>2, <2>3, QueueSame
    <2> QED BY <2>1, <2>4 DEF Queued
  <1>8. Carries(T1, r)'
    <2>1. ASSUME NEW u \in Thread
          PROVE  Ordered(waitBack', T1[u], HeadOf(u)', r)
      <3>1. Ordered(waitBack, T1[u], HeadOf(u)', r)
        <4>1. CASE u = t
          BY <1>2, <4>1
        <4>2. CASE u # t
          BY <1>1, <1>2, <1>6, <4>2 DEF Carries
        <4> QED BY <4>1, <4>2
      <3>2. \A x \in T1[u] : waitBack'[x] = waitBack[x]
        BY <1>3, <1>4
      <3> QED BY <3>1, <3>2, OrderedSame
    <2> QED BY <2>1 DEF Carries
  <1>9. \A u \in Thread : inHand'[u] # Null => u # t /\ inHand'[u] = inHand[u]
    BY <1>6
  <1>10. Disjoint(L, T1)'
    <2>1. \A u \in Thread : L \cap T1[u] = {}
      BY <1>1, <1>3 DEF Disjoint
    <2>2. \A u, v \in Thread : u # v => T1[u] \cap T1[v] = {}
      BY <1>1, <1>3 DEF Disjoint
    <2>3. \A u \in Thread : inHand'[u] # Null => inHand'[u] \notin L /\ \A v \in Thread : inHand'[u] \notin T1[v]
      BY <1>1, <1>3, <1>9 DEF Disjoint
    <2>4. \A u, v \in Thread : u # v /\ inHand'[u] # Null => inHand'[u] # inHand'[v]
      BY <1>1, <1>9 DEF Disjoint
    <2> QED BY <2>1, <2>2, <2>3, <2>4 DEF Disjoint
  <1>11. Placed(L, T1)'
    <2>1. \A x \in L : OnQueue(x)'
      BY <1>1, <1>3, <1>5 DEF Placed
    <2>2. ASSUME NEW u \in Thread, NEW x \in T1[u]
          PROVE  IF Drains(u)' THEN ToSet(x)' ELSE ToRelease(x)'
      <3>1. x \in T[u] /\ x # b /\ x \in Thread
        BY <1>3, <2>2
      <3>2. IF Drains(u) THEN ToSet(x) ELSE ToRelease(x)
        BY <1>1, <3>1 DEF Placed
      <3>3. Drains(u)' <=> Drains(u)
        <4>1. HeadOf(u) # Null
          BY <1>1, <3>1, CarriedIs
        <4> QED BY <1>6, <4>1
      <3> QED BY <1>5, <3>1, <3>2, <3>3
    <2>3. ASSUME NEW u \in Thread, inHand'[u] # Null
          PROVE  IF Drains(u)' THEN ToRelease(inHand[u])' ELSE ToSet(inHand[u])'
      <3>1. PICK x : x = inHand[u]
        OBVIOUS
      <3>2. u # t /\ inHand'[u] = x /\ x # Null /\ x # b
        BY <1>3, <1>9, <2>3, <3>1
      <3>3. x \in Thread
        BY <3>1, <3>2 DEF OfWaiters, BucketType, Block
      <3>4. IF Drains(u) THEN ToRelease(x) ELSE ToSet(x)
        BY <1>1, <3>1, <3>2 DEF Placed
      <3>5. Drains(u)' <=> Drains(u)
        BY <1>6, <3>1, <3>2
      <3>6. IF Drains(u)' THEN ToRelease(x)' ELSE ToSet(x)'
        BY <1>5, <3>2, <3>3, <3>4, <3>5
      <3> QED BY <3>2, <3>6
    <2> QED BY <2>1, <2>2, <2>3 DEF Placed
  <1>12. Fit(L, pos, m)'
    <2>1. ASSUME NEW u \in Thread
          PROVE  FitAt(u, L, pos, m)'
      <3>1. FitAt(u, L, pos, m)
        BY <1>1 DEF Fit
      <3>2. CASE u = b
        BY <3>2 DEF FitAt
      <3>3. CASE u = t
        BY <3>3 DEF FitAt
      <3>4. CASE u # b /\ u # t
        BY <3>1, <3>4 DEF FitAt, Locks, AloneWith
      <3> QED BY <3>2, <3>3, <3>4
    <2> QED BY <2>1 DEF Fit
  <1>13. WaitHolds(L, T1, pos, r, m)'
    BY <1>7, <1>8, <1>10, <1>11, <1>12 DEF WaitHolds
  <1> QED BY <1>13 DEF WaitHeld

LEMMA HeldReleaseNext ==
  ASSUME OfWaiters, NEW L \in SUBSET Thread, NEW T \in [Thread -> SUBSET Thread],
         NEW pos \in [Thread -> Nat], NEW r \in [Thread -> Nat], NEW m \in Block, WaitHolds(L, T, pos, r, m),
         NEW t \in Thread, Waits!ReleaseNext(t)
  PROVE  OfWaiters' /\ WaitHeld'
  <1>1. /\ WaitLinks /\ Carries(T, r) /\ Disjoint(L, T) /\ Placed(L, T)
        /\ waitPc[t] = "release" /\ WaiterAt(t) /\ Drains(t)
    BY DEF WaitHolds, Waits!ReleaseNext, OfWaiters, WaiterInv, Drains
  <1>2. PICK b : b = inHand[t]
    OBVIOUS
  <1>3. b \in Thread /\ b # Null /\ b \in Hand(t)
    BY <1>1, <1>2 DEF WaiterAt, Fits, OfWaiters, BucketType, Block, Hand
  <1>4. LastWake[t] \in Block /\ pItem[t] \in Block /\ Null \in Block
    BY DEF OfWaiters, BucketType, Block
  <1>5. Frees(t, b, "wakeList", Null, LastWake[t], pItem[t])
    <2>1. /\ UNCHANGED <<bucket, waitCurrent, pBlock, pItem, LastWake>> /\ Waits!Release(t, b, "wakeList")
          /\ inHand' = [inHand EXCEPT ![t] = Null]
      BY <1>2 DEF Waits!ReleaseNext, Waits!owner
    <2> QED BY <2>1 DEF Frees, OfWaiters, BucketType
  <1>6. Fits("wakeList", waitCall[t], flag[t], Null, LastWake[t], pItem[t])
    BY <1>1 DEF WaiterAt, Fits, InWait, InSleep, InWake, InBoth
  <1>7. /\ OfWaiters' /\ WaitLinks' /\ AloneWith(t, b) /\ b # t
        /\ waitPc'[t] = "wakeList" /\ inHand'[t] = Null /\ LastWake'[t] = LastWake[t] /\ pItem'[t] = pItem[t]
        /\ waitPc[b] \in {"kernel", "kernelAgain", "kernelLocked"}
        /\ waitPc'[b] = "unlock" \/ (waitPc'[b] = "idle" /\ waitNotify'[b] = Null)
    BY <1>1, <1>3, <1>4, <1>5, <1>6, FreesIs
  <1>8. UNCHANGED <<bucket, waitCurrent, pBlock>>
    BY DEF Waits!ReleaseNext, Waits!owner
  <1>9. Drains(t)' /\ HeadOf(t)' = pItem[t] /\ HeadOf(t) = pItem[t]
    BY <1>1, <1>7 DEF Drains, HeadOf
  <1>10. PICK S, T1 : S = T[t] /\ T1 = [T EXCEPT ![t] = S]
    OBVIOUS
  <1>11. S \in SUBSET Thread /\ T1 \in [Thread -> SUBSET Thread]
    BY <1>10
  <1>12. Ordered(waitBack, S, HeadOf(t)', r)
    BY <1>1, <1>9, <1>10 DEF Carries
  <1>13. Gone(t, b, L, T, S)
    <2>1. Hand(t)' = {}
      BY <1>7 DEF Hand
    <2> QED BY <1>1, <1>2, <1>3, <1>10, <2>1 DEF Gone, Disjoint
  <1> QED BY <1>1, <1>3, <1>7, <1>8, <1>9, <1>10, <1>11, <1>12, <1>13, HoldsFrees

LEMMA HeldReleaseAll ==
  ASSUME OfWaiters, NEW L \in SUBSET Thread, NEW T \in [Thread -> SUBSET Thread],
         NEW pos \in [Thread -> Nat], NEW r \in [Thread -> Nat], NEW m \in Block, WaitHolds(L, T, pos, r, m),
         NEW t \in Thread, Waits!ReleaseAll(t), LastWake[t] # Null
  PROVE  OfWaiters' /\ WaitHeld'
  <1>1. /\ WaitLinks /\ Carries(T, r) /\ Disjoint(L, T) /\ Placed(L, T)
        /\ waitPc[t] = "releaseAll" /\ WaiterAt(t) /\ ~Drains(t)
    BY DEF WaitHolds, Waits!ReleaseAll, OfWaiters, WaiterInv, Drains
  <1>2. PICK b : b = LastWake[t]
    OBVIOUS
  <1>3. HeadOf(t) = b /\ inHand[t] = Null
    BY <1>1, <1>2 DEF HeadOf, WaiterAt, Fits
  <1>4. b \in T[t] /\ b \in Thread /\ Ordered(waitBack, T[t], b, r)
    BY <1>1, <1>2, <1>3, CarriedIs
  <1>5. PICK last : last = waitBack[b]
    OBVIOUS
  <1>6. last \in Block /\ pItem[t] \in Block /\ Null \in Block
    BY <1>1, <1>4, <1>5 DEF WaitLinks, OfWaiters, BucketType, Block
  <1>7. Frees(t, b, "releaseAll", Null, last, pItem[t])
    <2>1. /\ UNCHANGED <<bucket, waitCurrent, pBlock, pItem, inHand>> /\ Waits!Release(t, b, "releaseAll")
          /\ LastWake' = [LastWake EXCEPT ![t] = last]
      BY <1>2, <1>5 DEF Waits!ReleaseAll, Waits!owner
    <2> QED BY <1>3, <2>1 DEF Frees, OfWaiters, BucketType
  <1>8. Fits("releaseAll", waitCall[t], flag[t], Null, last, pItem[t])
    BY <1>1 DEF WaiterAt, Fits, InWait, InSleep, InWake, InBoth
  <1>9. /\ OfWaiters' /\ WaitLinks' /\ AloneWith(t, b) /\ b # t
        /\ waitPc'[t] = "releaseAll" /\ inHand'[t] = Null /\ LastWake'[t] = last /\ pItem'[t] = pItem[t]
        /\ waitPc[b] \in {"kernel", "kernelAgain", "kernelLocked"}
        /\ waitPc'[b] = "unlock" \/ (waitPc'[b] = "idle" /\ waitNotify'[b] = Null)
    BY <1>1, <1>4, <1>6, <1>7, <1>8, FreesIs
  <1>10. UNCHANGED <<bucket, waitCurrent, pBlock>>
    BY DEF Waits!ReleaseAll, Waits!owner
  <1>11. ~Drains(t)' /\ HeadOf(t)' = last
    BY <1>9 DEF Drains, HeadOf
  <1>12. PICK S, T1 : S = T[t] \ {b} /\ T1 = [T EXCEPT ![t] = S]
    OBVIOUS
  <1>13. S \in SUBSET Thread /\ T1 \in [Thread -> SUBSET Thread]
    BY <1>12
  <1>14. Ordered(waitBack, S, HeadOf(t)', r)
    <2>1. Ordered(waitBack, T[t] \ {b}, waitBack[b], r)
      BY <1>1, <1>2, <1>4, OrderedPop DEF WaitLinks
    <2> QED BY <1>5, <1>11, <1>12, <2>1
  <1>15. Gone(t, b, L, T, S)
    <2>1. Hand(t)' = {}
      BY <1>9 DEF Hand
    <2> QED BY <1>1, <1>4, <1>12, <2>1, NullIsNoThread DEF Gone, Disjoint
  <1> QED BY <1>1, <1>4, <1>9, <1>10, <1>11, <1>12, <1>13, <1>14, <1>15, HoldsFrees

-----------------------------------------------------------------------------
(* The invariant of the waits on addresses, and what it says.              *)

LEMMA WaitInit ==
  ASSUME Waits!Init
  PROVE  WaitInv
  <1>1. /\ bucket = Waits!Empty /\ waitCurrent = Waits!Empty /\ pBlock = Null
        /\ waitBack = [t \in Thread |-> Null] /\ waitNotify = waitBack /\ waitNext = waitBack
        /\ flag = [t \in Thread |-> Waits!Spinning] /\ waitPc = [t \in Thread |-> "idle"]
        /\ waitCall = [t \in Thread |-> Waits!NoCall]
        /\ pItem = [t \in Thread |-> Null] /\ inHand = [t \in Thread |-> Null] /\ LastWake = [t \in Thread |-> Null]
    BY DEF Waits!Init
  <1>2. BucketType
    BY <1>1, BucketNew DEF BucketType, Block, InPlaces, WaitCalls, Waits!Spinning
  <1>3. WaiterInv
    BY <1>1 DEF WaiterInv, WaiterAt, Fits, InWait, InSleep, InWake, InBoth, Waits!Spinning, Waits!Kernel
  <1>4. LocksInv
    BY <1>1, BucketNew DEF LocksInv, Locks
  <1>5. \A t \in Thread : HeadOf(t) = Null /\ inHand[t] = Null
    BY <1>1 DEF HeadOf, Drains
  <1>6. WaitHolds({}, [t \in Thread |-> {}], [t \in Thread |-> 0], [t \in Thread |-> 0], Null)
    <2>1. PICK T, pos : T = [t \in Thread |-> {}] /\ pos = [t \in Thread |-> 0]
      OBVIOUS
    <2>2. WaitLinks
      BY <1>1 DEF WaitLinks, Block
    <2>3. Queued({}, pos, Null)
      BY <1>1, BucketNew, QueueNone DEF Queued
    <2>4. Carries(T, pos)
      BY <1>5, <2>1, OrderedNone DEF Carries
    <2>5. Disjoint({}, T) /\ Placed({}, T)
      BY <1>5, <2>1 DEF Disjoint, Placed
    <2>6. Fit({}, pos, Null)
      BY <1>1 DEF Fit, FitAt
    <2> QED BY <2>1, <2>2, <2>3, <2>4, <2>5, <2>6 DEF WaitHolds
  <1>7. Null \in Block /\ [t \in Thread |-> {}] \in [Thread -> SUBSET Thread] /\ [t \in Thread |-> 0] \in [Thread -> Nat]
    BY DEF Block
  <1> QED BY <1>2, <1>3, <1>4, <1>6, <1>7 DEF WaitInv, OfWaiters, WaitHeld

LEMMA WaitStutters ==
  ASSUME WaitInv, UNCHANGED waitVars
  PROVE  WaitInv'
  <1>1. UNCHANGED <<bucket, waitBack, waitNotify, waitNext, flag, waitPc, waitCall, waitCurrent, pBlock, pItem, inHand, LastWake>>
    BY DEF waitVars
  <1>2. BucketType'
    BY <1>1 DEF WaitInv, OfWaiters, BucketType
  <1>3. WaiterInv'
    BY <1>1 DEF WaitInv, OfWaiters, WaiterInv, WaiterAt
  <1>4. LocksInv'
    BY <1>1 DEF WaitInv, OfWaiters, LocksInv, Locks
  <1>5. WaitHeld'
    <2>1. PICK L \in SUBSET Thread, T \in [Thread -> SUBSET Thread], pos \in [Thread -> Nat], r \in [Thread -> Nat],
               m \in Block : WaitHolds(L, T, pos, r, m)
      BY DEF WaitInv, WaitHeld
    <2>2. WaitLinks' /\ Queued(L, pos, m)'
      BY <1>1, <2>1 DEF WaitHolds, WaitLinks, Queued
    <2>3. Carries(T, r)' /\ Disjoint(L, T)'
      BY <1>1, <2>1 DEF WaitHolds, Carries, HeadOf, Drains, Disjoint
    <2>4. Placed(L, T)'
      BY <1>1, <2>1 DEF WaitHolds, Placed, OnQueue, ToSet, ToRelease, Drains
    <2>5. Fit(L, pos, m)'
      BY <1>1, <2>1 DEF WaitHolds, Fit, FitAt, Locks
    <2>6. WaitHolds(L, T, pos, r, m)'
      BY <2>2, <2>3, <2>4, <2>5 DEF WaitHolds
    <2> QED BY <2>6 DEF WaitHeld
  <1> QED BY <1>2, <1>3, <1>4, <1>5 DEF WaitInv, OfWaiters

LEMMA WaitStep ==
  ASSUME WaitInv, NEW t \in Thread, Waits!Acts(t)
  PROVE  WaitInv'
  <1>1. OfWaiters /\ WaitHeld
    BY DEF WaitInv
  <1>2. PICK L \in SUBSET Thread, T \in [Thread -> SUBSET Thread], pos \in [Thread -> Nat], r \in [Thread -> Nat],
             m \in Block : WaitHolds(L, T, pos, r, m)
    BY <1>1 DEF WaitHeld
  <1>3. WaitHolds(L, T, pos, r, m)' => WaitHeld'
    BY DEF WaitHeld
  <1>4. SUFFICES OfWaiters' /\ WaitHeld'
    BY DEF WaitInv
  <1>5. Waits!BeginWait(t) \/ Waits!BeginWake(t) \/ Waits!TimeOut(t) \/ Waits!Inside(t)
    BY DEF Waits!Acts
  <1>6. CASE Waits!BeginWait(t)
    BY <1>1, <1>2, <1>3, <1>6, BeginWaitDoes, HoldsBeginWait
  <1>7. CASE Waits!BeginWake(t)
    BY <1>1, <1>2, <1>3, <1>7, BeginWakeDoes, HoldsBeginWake
  <1>8. CASE Waits!TimeOut(t)
    BY <1>1, <1>2, <1>3, <1>8, TimeOutDoes, HoldsWaitTimeOut
  <1>9. CASE Waits!Add(t)
    <2>1. OfWaiters'
      BY <1>1, <1>9, AddJoinsDoes, AddLocksDoes
    <2> QED BY <1>1, <1>2, <1>9, <2>1, HeldAdd
  <1>10. CASE Waits!Look(t)
    BY <1>1, <1>2, <1>3, <1>10, LookDoes, HoldsLook
  <1>11. CASE Waits!Optimize(t)
    <2>1. OfWaiters'
      BY <1>1, <1>11, OptimizeAgainDoes, OptimizeEndsDoes, OptimizeWakesDoes
    <2> QED BY <1>1, <1>2, <1>11, <2>1, HeldOptimizeStays, HeldOptimizeWakes
  <1>12. CASE Waits!Compare(t)
    BY <1>1, <1>2, <1>3, <1>12, CompareDoes, HoldsCompare
  <1>13. CASE Waits!Spin(t)
    <2>1. CASE flag[t] = Waits!Spinning
      BY <1>1, <1>2, <1>3, <1>13, <2>1, SpinEndsDoes, HoldsSpinEnds
    <2>2. CASE flag[t] # Waits!Spinning
      BY <1>1, <1>2, <1>3, <1>13, <2>2, SpinReturnsDoes, HoldsSpinReturns
    <2> QED BY <2>1, <2>2
  <1>14. CASE Waits!RemoveWaitBlock(t)
    <2>1. CASE bucket.block = Null \/ bucket.locked
      BY <1>1, <1>2, <1>3, <1>14, <2>1, RemoveAsksDoes, HoldsRemoveAsks
    <2>2. CASE ~(bucket.block = Null \/ bucket.locked) /\ bucket.block = t
      BY <1>1, <1>2, <1>3, <1>14, <2>2, RemoveFindsDoes, HoldsRemoveFinds
    <2>3. CASE ~(bucket.block = Null \/ bucket.locked) /\ bucket.block # t
      BY <1>1, <1>2, <1>14, <2>3, RemoveCutsDoes, HeldRemoveCuts
    <2> QED BY <2>1, <2>2, <2>3
  <1>15. CASE Waits!RemoveNewest(t)
    <2>1. CASE bucket # waitCurrent /\ bucket.block = t
      BY <1>1, <1>2, <1>3, <1>15, <2>1, RemoveNewestAgainDoes, HoldsRemoveNewestAgain
    <2>2. CASE bucket # waitCurrent /\ bucket.block # t
      BY <1>1, <1>2, <1>15, <2>2, RemoveNewestCutsDoes, HeldRemoveNewestCuts
    <2>3. CASE bucket = waitCurrent /\ waitBack[t] = Null
      BY <1>1, <1>2, <1>15, <2>3, RemoveLastDoes, HeldRemoveLast
    <2>4. CASE bucket = waitCurrent /\ waitBack[t] # Null
      <3>1. waitBack[t] \in Thread
        BY <1>2, <2>4 DEF WaitHolds, WaitLinks, Block
      <3> QED BY <1>1, <1>2, <1>15, <2>4, <3>1, RemoveNewestLeavesDoes, HeldRemoveNewestLeaves
    <2> QED BY <2>1, <2>2, <2>3, <2>4
  <1>16. CASE Waits!NotFound(t)
    BY <1>1, <1>2, <1>3, <1>16, NotFoundDoes, HoldsNotFound
  <1>17. CASE Waits!Rejoin(t)
    <2>1. CASE flag[t] = Waits!Woken
      BY <1>1, <1>2, <1>3, <1>17, <2>1, RejoinReturnsDoes, HoldsRejoinReturns
    <2>2. CASE flag[t] # Waits!Woken
      BY <1>1, <1>2, <1>3, <1>17, <2>2, RejoinSpinsDoes, HoldsRejoinSpins
    <2> QED BY <2>1, <2>2
  <1>18. CASE Waits!UnlockList(t)
    <2>1. CASE bucket.wakeAll
      BY <1>1, <1>2, <1>18, <2>1, UnlockWakesDoes, HeldUnlockWakes
    <2>2. CASE ~bucket.wakeAll
      BY <1>1, <1>2, <1>3, <1>18, <2>2, UnlockReturnsDoes, HoldsUnlockReturns
    <2> QED BY <2>1, <2>2
  <1>19. CASE Waits!WakeNext(t)
    <2>1. CASE pItem[t] # Null
      BY <1>1, <1>2, <1>19, <2>1, HeldWakeNext
    <2>2. CASE pItem[t] = Null /\ waitCall[t].kind = "wait" /\ ~waitCall[t].compared
      BY <1>1, <1>2, <1>3, <1>19, <2>2, WakeListStaysDoes, HoldsWakeListStays
    <2>3. CASE pItem[t] = Null /\ ~(waitCall[t].kind = "wait" /\ ~waitCall[t].compared)
      BY <1>1, <1>2, <1>3, <1>19, <2>3, WakeListReturnsDoes, HoldsWakeListReturns
    <2> QED BY <2>1, <2>2, <2>3
  <1>20. CASE Waits!ReleaseNext(t)
    BY <1>1, <1>2, <1>20, HeldReleaseNext
  <1>21. CASE Waits!Wake(t)
    <2>1. CASE bucket.block = Null \/ bucket.locked
      BY <1>1, <1>2, <1>3, <1>21, <2>1, WakeLeavesDoes, HoldsWakeLeaves
    <2>2. CASE ~(bucket.block = Null \/ bucket.locked)
      BY <1>1, <1>2, <1>21, <2>2, HeldWakeLocks
    <2> QED BY <2>1, <2>2
  <1>22. CASE Waits!Scanned(t)
    BY <1>1, <1>2, <1>3, <1>22, ScannedDoes, HoldsScanned
  <1>23. CASE Waits!HoldOlder(t)
    BY <1>1, <1>2, <1>23, HeldHoldOlder
  <1>24. CASE Waits!HoldNewest(t)
    BY <1>1, <1>2, <1>24, HeldHoldNewest, HeldHoldAgain
  <1>25. CASE Waits!Take(t)
    BY <1>1, <1>2, <1>25, HeldTake
  <1>26. CASE Waits!ReleaseAll(t)
    <2>1. CASE LastWake[t] # Null
      BY <1>1, <1>2, <1>26, <2>1, HeldReleaseAll
    <2>2. CASE LastWake[t] = Null /\ waitCall[t].bNoRemove
      BY <1>1, <1>2, <1>3, <1>26, <2>2, ReleaseAllReturnsDoes, HoldsReleaseAllReturns
    <2>3. CASE LastWake[t] = Null /\ ~waitCall[t].bNoRemove
      BY <1>1, <1>2, <1>3, <1>26, <2>3, ReleaseAllUnlocksDoes, HoldsReleaseAllUnlocks
    <2> QED BY <2>1, <2>2, <2>3
  <1> QED BY <1>5, <1>6, <1>7, <1>8, <1>9, <1>10, <1>11, <1>12, <1>13, <1>14, <1>15, <1>16, <1>17, <1>18, <1>19, <1>20,
             <1>21, <1>22, <1>23, <1>24, <1>25, <1>26 DEF Waits!Inside

\* Whoever is listed is still inside WaitOnAddress.
LEMMA ListedWaits ==
  ASSUME OfWaiters, NEW b \in Thread, Listed(b)
  PROVE  waitCall[b].kind = "wait"
  <1>1. waitCall[b] \in Waiting
    BY DEF OfWaiters, WaiterInv, WaiterAt, Fits, Listed, OnQueue, ToSet, ToRelease, InWait
  <1> QED BY <1>1, CallIs

LEMMA WaitInvSafe ==
  ASSUME WaitInv
  PROVE  Waits!NoDeadBlock
  <1>1. PICK L \in SUBSET Thread, T \in [Thread -> SUBSET Thread], pos \in [Thread -> Nat], r \in [Thread -> Nat],
             m \in Block : WaitHolds(L, T, pos, r, m)
    BY DEF WaitInv, WaitHeld
  <1>2. OfWaiters /\ WaitLinks /\ Queued(L, pos, m) /\ Carries(T, r) /\ Placed(L, T) /\ Fit(L, pos, m)
    BY <1>1 DEF WaitInv, WaitHolds
  <1>3. Waits!List = L
    BY <1>2, QueueIs
  <1>4. \A b \in L : waitCall[b].kind = "wait"
    BY <1>2, ListedWaits DEF Placed, Listed
  <1>5. Waits!Behind(Null) = {} /\ Waits!Ahead(Null) = {}
    BY WaitFollow, FollowNone
  <1>6. ASSUME NEW t \in Thread
        PROVE  Waits!Taken(t) \subseteq T[t] \cup Hand(t)
    <2>1. Waits!Behind(HeadOf(t)) = T[t]
      BY <1>2, CarriedIs
    <2>2. CASE Drains(t)
      <3>1. LastWake[t] = Null
        BY <1>2, <2>2 DEF Drains, OfWaiters, WaiterInv, WaiterAt, Fits
      <3> QED BY <1>5, <2>1, <2>2, <3>1 DEF Waits!Taken, HeadOf, Drains, Hand
    <2>3. CASE ~Drains(t)
      BY <2>1, <2>3 DEF Waits!Taken, HeadOf, Drains, Hand
    <2> QED BY <2>2, <2>3
  <1>7. ASSUME NEW t \in Thread, NEW b \in T[t] \cup Hand(t)
        PROVE  waitCall[b].kind = "wait"
    <2>1. CASE b \in T[t]
      <3>1. b \in Thread /\ Listed(b)
        BY <1>2, <2>1 DEF Placed, Listed
      <3> QED BY <1>2, <3>1, ListedWaits
    <2>2. CASE b \in Hand(t)
      <3>1. b \in Thread /\ inHand[t] = b /\ inHand[t] # Null
        BY <1>2, <2>2 DEF Hand, OfWaiters, BucketType, Block
      <3>2. Listed(b)
        BY <1>2, <3>1 DEF Placed, Listed
      <3> QED BY <1>2, <3>1, <3>2, ListedWaits
    <2> QED BY <2>1, <2>2
  <1>8. ASSUME NEW t \in Thread, waitPc[t] = "scan"
        PROVE  Waits!Ahead(pItem[t]) \subseteq Waits!List
    <2>1. CASE pItem[t] = Null
      BY <1>5, <2>1
    <2>2. CASE pItem[t] # Null
      <3>1. PICK p : p = pItem[t]
        OBVIOUS
      <3>2. p \in L /\ pos[p] <= pos[m]
        BY <1>2, <1>8, <2>2, <3>1 DEF Fit, FitAt
      <3>3. Queue(waitBack, waitNext, waitNotify, L, bucket.block, pos, m)
        BY <1>2 DEF Queued
      <3>4. Follow(waitNotify, p) = Between(L, pos, p, m)
        BY <1>2, <3>2, <3>3, AheadIs DEF WaitLinks
      <3> QED BY <1>3, <3>1, <3>4, WaitFollow DEF Between
    <2> QED BY <2>1, <2>2
  <1> QED BY <1>3, <1>4, <1>6, <1>7, <1>8 DEF Waits!NoDeadBlock

\* But for a missed release that meets another wait, a step is one of those of a
\* thread whose releases are all met; and nothing comes after that.
LEMMA WaitsNextActs ==
  ASSUME Waits!Next
  PROVE  ~misled /\ (misled' \/ \E t \in Thread : Waits!Acts(t))
  BY DEF Waits!Next, Waits!Miss, Waits!Meet, Waits!Acts, Waits!Inside

\* From Windows Vista on no release is missed (synch.hpp:154).
NoneMissed == part = "address" /\ ~BelowVista => \A t \in Thread : missed[t] = Null

Sound == NoneMissed /\ ((BelowVista /\ misled) \/ WaitInv)

LEMMA MisledBelow ==
  ASSUME NoneMissed, Waits!Next, part = "address", UNCHANGED part
  PROVE  NoneMissed' /\ (misled' => BelowVista)
  <1>1. ~BelowVista => UNCHANGED Waits!late
    BY DEF NoneMissed, Waits!Next, Waits!Miss, Waits!Meet
  <1>2. ~misled
    BY WaitsNextActs
  <1> QED BY <1>1, <1>2 DEF NoneMissed, Waits!late

LEMMA SoundStep ==
  ASSUME Sound, SleepersNext
  PROVE  Sound'
  <1>1. CASE Next /\ UNCHANGED <<part, waitVars>> /\ part = "condition"
    <2>1. WaitInv
      BY <1>1, NextActs DEF Sound
    <2> QED BY <1>1, <2>1, WaitStutters DEF Sound, NoneMissed
  <1>2. CASE Waits!Next /\ UNCHANGED part /\ part = "address"
    <2>1. WaitInv /\ NoneMissed
      BY <1>2, WaitsNextActs DEF Sound
    <2>2. NoneMissed' /\ (misled' => BelowVista)
      BY <1>2, <2>1, MisledBelow
    <2>3. misled' \/ WaitInv'
      BY <1>2, <2>1, WaitsNextActs, WaitStep
    <2> QED BY <2>2, <2>3 DEF Sound
  <1> QED BY <1>1, <1>2 DEF SleepersNext

\* The list, what wakers have taken of it and where each thread is agree at every step (synch.hpp:858-1303),
\* also while releases wait for threads that have left, until one meets another wait; and that can happen on
\* systems below Windows Vista only (154-168, 189-190).
THEOREM WaitsInvariance == SleepersSpec => []Sound
  <1>1. SleepersInit => Sound
    BY WaitInit DEF SleepersInit, Init, Sound, NoneMissed
  <1>2. Sound /\ [SleepersNext]_<<part, vars, late, waitVars>> => Sound'
    <2>1. ASSUME Sound, UNCHANGED <<part, vars, late, waitVars>>
          PROVE  Sound'
      BY <2>1, WaitStutters DEF Sound, NoneMissed, late
    <2> QED BY <2>1, SoundStep
  <1> QED BY <1>1, <1>2, PTL DEF SleepersSpec

\* No list of sleepers, no waker's catch and no walk reaches the block of a thread that has returned, which
\* is on its stack (synch.hpp:2806-2852): a timed-out thread unlinks its block or waits for the waker that
\* has it (971-1070), and a waker touches a block once more only while it must (864-878, 1194-1303).  Below
\* Windows Vista that ends when a release that came too late meets the thread's next wait (154-168, 189-190).
THEOREM WaitsSafe == SleepersSpec => []NoBlockDead
  <1>1. Sound => NoBlockDead
    BY WaitInvSafe DEF Sound, NoBlockDead
  <1> QED BY <1>1, WaitsInvariance, PTL
=============================================================================
